---- MODULE Spec2Model ----
(***************************************************************************)
(* Model of the classification engine of pp-portfolio-classifier:          *)
(* Classifier.normalizeBreakdown, Classifier.applyEmbeddedTaxonomies and   *)
(* the per-security orchestration (classifyFund / classifyStock).          *)
(*                                                                         *)
(* Weights are JavaScript numbers.  A weight is kept here as the integer    *)
(* numerator of a fraction with denominator Den, so that the value 1234.5  *)
(* basis points is the numerator 1234.5 * Den.  Math.round is modelled by  *)
(* what it does on such a fraction (round half up).                        *)
(***************************************************************************)
EXTENDS Integers, Sequences, FiniteSets, TLC

VARIABLES
  pc,                       \* position of the program
  normIn, normOut,          \* argument and result of normalizeBreakdown
  embeddedTaxonomiesConfig, \* this.embeddedTaxonomiesConfig, in declaration order
  securityResults,          \* the caller's Map: taxonomy id -> TaxonomyResult object
  results,                  \* the Map built inside applyEmbeddedTaxonomies
  objs,                     \* heap of TaxonomyResult objects
  arrays,                   \* heap of Assignment arrays
  cfgIdx,                   \* index of the embedding config being processed
  log,                      \* console output of applyEmbeddedTaxonomies
  security,                 \* the PPSecurity being classified
  taxonomiesConfig,         \* this.taxonomiesConfig: taxonomy id -> TaxonomyConfig
  securityInfo,             \* what api.getSecurityData returned for the security
  data,                     \* the provider payload, read per taxonomy
  taxIdx,                   \* position of the loop over taxonomiesConfig
  writeIdx,                 \* position of the loop over embeddedResults.entries()
  storeCalls,               \* calls of xmlHandler.updateSecurityAssignments
  fetches,                  \* number of provider requests made
  sourceDataOf,             \* per taxonomy, the sourceData classifyFund extracted
  rawItems,                 \* itemsToProcess handed to assignItems
  rawMapping,               \* taxConfig.mapping handed to assignItems
  assigned,                 \* the assignments assignItems returned
  securities,               \* xmlHandler.getSecurities(), in document order
  secIdx,                   \* position of the loop of main over securities
  calls,                    \* calls of classifier.classifySecurity and their outcome
  caught,                   \* errors caught by the try/catch of main
  processedCount,           \* processedCount of main
  saves,                    \* calls of xmlHandler.save
  rejected,                 \* main ended with an error nothing caught
  xmlData,                  \* the document XMLHandler holds
  updateCall,               \* arguments of the last updateSecurityAssignments
  updateCount,              \* number of calls of updateSecurityAssignments
  xmlErrors                 \* console.error calls of the last call

vars == <<pc, normIn, normOut, embeddedTaxonomiesConfig, securityResults,
          results, objs, arrays, cfgIdx, log, security, taxonomiesConfig,
          securityInfo, data, taxIdx, writeIdx, storeCalls, fetches,
          sourceDataOf, rawItems, rawMapping, assigned, securities, secIdx, calls, caught,
          processedCount, saves, rejected, xmlData, updateCall, updateCount,
          xmlErrors>>

normVars == <<normIn, normOut>>
embedVars == <<embeddedTaxonomiesConfig, securityResults, results, objs,
               arrays, cfgIdx, log>>
assignVars == <<rawItems, rawMapping, assigned>>
batchVars == <<securities, secIdx, calls, caught, processedCount, saves,
               rejected>>
storeVars == <<xmlData, updateCall, updateCount, xmlErrors>>
classifyVars == <<security, taxonomiesConfig, securityInfo, data, taxIdx,
                  writeIdx, storeCalls, fetches, sourceDataOf>>

\* Denominator of the fixed-point representation of a JavaScript number.
Den == 3

\* Longest assignment list handed to the normalizer in SpecNormalize.
MaxLen == 3

\* Largest number of entries of embeddedTaxonomiesConfig in SpecEmbed.
MaxConfigs == 2

\* Longest list of raw items handed to assignItems in SpecAssign.
MaxItems == 3

\* Largest number of securities of the document in SpecBatch.
MaxSecurities == 3

\* 100_00: one hundred percent in basis points.
FullWeight == 10000

\* The numerator that stands for bp basis points plus frac / Den.
W(bp, frac) == bp * Den + frac

\* Math.round on the fraction num / den (den > 0): nearest integer, halves up.
MathRound(num, den) == (2 * num + den) \div (2 * den)

\* Math.round applied to a weight; the result is again a numerator over Den.
RoundWeight(w) == Den * MathRound(w, Den)

\* A slot of a JavaScript array emptied by `delete result[i]`.
Hole == [path |-> <<>>, weight |-> 0, hole |-> TRUE]

Assignment(p, w) == [path |-> p, weight |-> w, hole |-> FALSE]

RECURSIVE SumWeights(_)
\* reduce((sum, assignment) => sum + assignment.weight, 0)
SumWeights(s) ==
  IF s = <<>> THEN 0 ELSE Head(s).weight + SumWeights(Tail(s))

RECURSIVE FilterPositive(_)
\* filter((a) => a && a.weight > 0): holes and non-positive weights go.
FilterPositive(s) ==
  IF s = <<>> THEN <<>>
  ELSE IF ~Head(s).hole /\ Head(s).weight > 0
       THEN <<Head(s)>> \o FilterPositive(Tail(s))
       ELSE FilterPositive(Tail(s))

\* map((a) => ({ path: a.path, weight: Math.round(a.weight) }))
MapRound(s) ==
  [i \in 1..Len(s) |-> Assignment(s[i].path, RoundWeight(s[i].weight))]

RECURSIVE InsertDesc(_, _)
\* Insert x behind every element whose weight is >= x.weight.
InsertDesc(s, x) ==
  IF s = <<>> THEN <<x>>
  ELSE IF Head(s).weight >= x.weight
       THEN <<Head(s)>> \o InsertDesc(Tail(s), x)
       ELSE <<x>> \o s

RECURSIVE InsertDescBeforeTies(_, _)
\* Insert x in front of the elements of equal weight.
InsertDescBeforeTies(s, x) ==
  IF s = <<>> THEN <<x>>
  ELSE IF Head(s).weight > x.weight
       THEN <<Head(s)>> \o InsertDescBeforeTies(Tail(s), x)
       ELSE <<x>> \o s

RECURSIVE SortDescFromUnstable(_, _)
\* SortDescFrom with a sort that reverses the order of equal weights.
SortDescFromUnstable(sorted, rest) ==
  IF rest = <<>> THEN sorted
  ELSE SortDescFromUnstable(InsertDescBeforeTies(sorted, Head(rest)), Tail(rest))

RECURSIVE SortDescFrom(_, _)
SortDescFrom(sorted, rest) ==
  IF rest = <<>> THEN sorted
  ELSE SortDescFrom(InsertDesc(sorted, Head(rest)), Tail(rest))

\* result.sort((a, b) => b.weight - a.weight): Array.prototype.sort is stable.
SortDesc(s) == SortDescFrom(<<>>, s)

RECURSIVE TruncateWalkNoClamp(_, _, _)
\* TruncateWalk without `totalWeight = 100_00` after the truncation.
TruncateWalkNoClamp(result, i, totalWeight) ==
  IF i > Len(result) THEN result
  ELSE IF totalWeight + result[i].weight > FullWeight * Den
       THEN LET w == FullWeight * Den - totalWeight
                r == IF w = 0
                     THEN [result EXCEPT ![i] = Hole]
                     ELSE [result EXCEPT ![i].weight = w]
            IN TruncateWalkNoClamp(r, i + 1, totalWeight)
       ELSE TruncateWalkNoClamp(result, i + 1, totalWeight + result[i].weight)

RECURSIVE TruncateWalk(_, _, _)
\* The for loop of normalizeBreakdown over the sorted list, from index i on.
TruncateWalk(result, i, totalWeight) ==
  IF i > Len(result) THEN result
  ELSE IF totalWeight + result[i].weight > FullWeight * Den
       THEN LET w == FullWeight * Den - totalWeight
                r == IF w = 0
                     THEN [result EXCEPT ![i] = Hole]
                     ELSE [result EXCEPT ![i].weight = w]
            IN TruncateWalk(r, i + 1, FullWeight * Den)
       ELSE TruncateWalk(result, i + 1, totalWeight + result[i].weight)

\* normalizeBreakdown with the test `totalWeight > 100_00` left out.
normalizeBreakdownAlwaysSorts(assignments) ==
  FilterPositive(TruncateWalk(SortDesc(MapRound(FilterPositive(assignments))), 1, 0))

normalizeBreakdown(assignments) ==
  LET result == MapRound(FilterPositive(assignments))
      totalWeight == SumWeights(result)
  IN FilterPositive(IF totalWeight > FullWeight * Den
                    THEN TruncateWalk(SortDesc(result), 1, 0)
                    ELSE result)

(***************************************************************************)
(* SpecNormalize: the normalizer as a pure function of an input list.      *)
(***************************************************************************)

\* Weights an input entry may carry: negative, zero, fractions that round
\* down and up, and whole basis points.
NormWeights ==
  { W(-5000, 0), 0, W(0, 1), W(0, Den - 1), W(4999, Den - 1), W(5000, 1),
    W(1000, 0), W(3000, 0), W(5000, 0), W(9000, 0), W(10000, 0) }

\* The path of the i-th input entry (the normalizer never reads a path).
NormPath(i) == <<ToString(i)>>

\* The variables of applyEmbeddedTaxonomies while it is not running.
EmbedIdle ==
  /\ embeddedTaxonomiesConfig = <<>>
  /\ securityResults = <<>>
  /\ results = <<>>
  /\ objs = <<>>
  /\ arrays = <<>>
  /\ cfgIdx = 0
  /\ log = <<>>

\* The variables of main while the batch loop is not running.
BatchIdle ==
  /\ securities = <<>>
  /\ secIdx = 0
  /\ calls = <<>>
  /\ caught = <<>>
  /\ processedCount = 0
  /\ saves = 0
  /\ rejected = FALSE

\* The variables of XMLHandler while no document is loaded.
StoreIdle ==
  /\ xmlData = <<>>
  /\ updateCall = <<>>
  /\ updateCount = 0
  /\ xmlErrors = 0

\* The variables of assignItems while it is not running.
AssignIdle ==
  /\ rawItems = <<>>
  /\ rawMapping = <<>>
  /\ assigned = <<>>

\* The variables of classifySecurity while no security is being classified.
ClassifyIdle ==
  /\ security = <<>>
  /\ taxonomiesConfig = <<>>
  /\ securityInfo = <<>>
  /\ data = <<>>
  /\ taxIdx = 0
  /\ writeIdx = 1
  /\ storeCalls = <<>>
  /\ fetches = 0
  /\ sourceDataOf = <<>>

InitNormalize ==
  /\ pc = "input"
  /\ normIn = <<>>
  /\ normOut = <<>>
  /\ AssignIdle
  /\ BatchIdle
  /\ StoreIdle
  /\ EmbedIdle
  /\ ClassifyIdle

NormPush ==
  /\ pc = "input"
  /\ Len(normIn) < MaxLen
  /\ \E w \in NormWeights :
       normIn' = Append(normIn, Assignment(NormPath(Len(normIn) + 1), w))
  /\ UNCHANGED <<pc, normOut, assignVars, batchVars, storeVars, embedVars, classifyVars>>

NormCall ==
  /\ pc = "input"
  /\ normOut' = normalizeBreakdown(normIn)
  /\ pc' = "normalized"
  /\ UNCHANGED <<normIn, assignVars, batchVars, storeVars, embedVars, classifyVars>>

NextNormalize == NormPush \/ NormCall

SpecNormalize == InitNormalize /\ [][NextNormalize]_vars

(***************************************************************************)
(* Claims about the Weight Normalizer, checked under SpecNormalize.        *)
(***************************************************************************)

\* Indices of the input entries with a positive weight.
NormPositive == { i \in 1..Len(normIn) : normIn[i].weight > 0 }

\* The rounded weight of input entry i.
NormRounded(i) == Den * MathRound(normIn[i].weight, Den)

RECURSIVE SumRounded(_)
SumRounded(S) ==
  IF S = {} THEN 0
  ELSE LET i == CHOOSE x \in S : TRUE IN NormRounded(i) + SumRounded(S \ {i})

\* Sum of the rounded positive weights of the input.
NormRoundedTotal == SumRounded(NormPositive)

\* C1: whatever the input list, the list normalizeBreakdown returns has a
\* total weight of at most 10000 and every entry of it has a positive
\* integer weight.
C1_NormalizerContract ==
  pc = "normalized" =>
    /\ SumWeights(normOut) <= FullWeight * Den
    /\ \A k \in 1..Len(normOut) :
         /\ ~normOut[k].hole
         /\ normOut[k].weight > 0
         /\ normOut[k].weight % Den = 0

\* C1 witness: an input above 100% has been normalized down to exactly 100%.
C1_Witness ==
  /\ pc = "normalized"
  /\ NormRoundedTotal > FullWeight * Den
  /\ Len(normOut) >= 2
  /\ SumWeights(normOut) = FullWeight * Den

\* Input entries that survive rounding: positive, and not rounded to 0.
NormSurvivors == { i \in NormPositive : NormRounded(i) > 0 }

\* The k-th surviving input entry, in input order.
NormSurvivor(k) ==
  CHOOSE i \in NormSurvivors :
    Cardinality({ j \in NormSurvivors : j < i }) = k - 1

\* The output is the input, rounded, without the entries that are not
\* positive after rounding, in input order.
NormIsRoundedInput ==
  /\ Len(normOut) = Cardinality(NormSurvivors)
  /\ \A k \in 1..Len(normOut) :
       normOut[k] = Assignment(normIn[NormSurvivor(k)].path,
                               NormRounded(NormSurvivor(k)))

\* C3 as stated: an input whose total weight is at most 10000 comes back
\* rounded and without its zero-weight entries, in order, nothing truncated.
C3_NoOpBelowThreshold_Original ==
  (pc = "normalized" /\ SumWeights(normIn) <= FullWeight * Den)
    => NormIsRoundedInput

\* C3 amended: when the positive entries of the input, each rounded to the
\* nearest integer, sum to at most 10000, the output is the input without
\* its non-positive entries, each weight rounded, without the entries that
\* round to 0: same order, nothing truncated.
C3_NoOpBelowRoundedThreshold ==
  (pc = "normalized" /\ NormRoundedTotal <= FullWeight * Den)
    => NormIsRoundedInput

\* C3 witness: a list below the threshold with a fractional weight that was
\* rounded, an entry that was dropped and two entries that were kept.
C3_Witness ==
  /\ pc = "normalized"
  /\ NormRoundedTotal <= FullWeight * Den
  /\ Len(normOut) >= 2
  /\ Len(normOut) < Len(normIn)
  /\ \E i \in NormSurvivors : normIn[i].weight % Den # 0

\* Position of input entry i in the descending order, ties in input order.
NormRank(i) ==
  1 + Cardinality({ j \in NormPositive :
                      \/ NormRounded(j) > NormRounded(i)
                      \/ NormRounded(j) = NormRounded(i) /\ j < i })

\* Running total in front of input entry i in that order.
NormBefore(i) ==
  SumRounded({ j \in NormPositive : NormRank(j) < NormRank(i) })

\* Entry i fits under 10000 with everything in front of it.
NormFits(i) == NormBefore(i) + NormRounded(i) <= FullWeight * Den

\* Entry i is the first one that does not fit, and there is headroom left.
NormCut(i) ==
  /\ NormBefore(i) < FullWeight * Den
  /\ NormBefore(i) + NormRounded(i) > FullWeight * Den

NormKept == { i \in NormPositive : NormFits(i) \/ NormCut(i) }

\* C4: when the rounded positive weights sum to more than 10000, the output
\* is the entries in descending weight order (ties in input order); those in
\* front of the first entry that would pass 10000 keep their weight, that
\* entry gets 10000 minus the running total (and is dropped if that is 0),
\* and every entry behind it is dropped.
C4_TruncationOrder ==
  (pc = "normalized" /\ NormRoundedTotal > FullWeight * Den) =>
    /\ Len(normOut) = Cardinality(NormKept)
    /\ \A i \in NormKept :
         /\ NormRank(i) <= Len(normOut)
         /\ normOut[NormRank(i)] =
              Assignment(normIn[i].path,
                         IF NormFits(i) THEN NormRounded(i)
                         ELSE FullWeight * Den - NormBefore(i))

\* C4 witness: behind a larger entry kept whole, of two entries of equal
\* weight the earlier one was cut down to the headroom and the later one was
\* dropped.
C4_Witness ==
  /\ pc = "normalized"
  /\ NormRoundedTotal > FullWeight * Den
  /\ Len(normOut) = 2
  /\ \E i, j \in NormPositive :
       /\ i < j
       /\ NormRounded(i) = NormRounded(j)
       /\ NormCut(i)
       /\ j \notin NormKept
       /\ normOut[2] = Assignment(normIn[i].path,
                                  FullWeight * Den - NormBefore(i))

(***************************************************************************)
(* Embedding Engine: Classifier.applyEmbeddedTaxonomies.                   *)
(*                                                                         *)
(* A Map<string, TaxonomyResult> is a function from the taxonomy ids it    *)
(* holds to references into objs; a TaxonomyResult object holds a          *)
(* reference into arrays.  Map iteration follows insertion order, which is *)
(* the order of Object.entries(this.taxonomiesConfig).                     *)
(***************************************************************************)

\* Object.entries(this.taxonomiesConfig): the configured taxonomy ids.
TaxOrder == <<"asset_type", "stock_style", "bond_sector">>

TaxIds == { TaxOrder[i] : i \in 1..Len(TaxOrder) }

\* The keys of Map m in iteration order.
MapKeys(m) == SelectSeq(TaxOrder, LAMBDA t : t \in DOMAIN m)

\* Position of key t in MapKeys(m).
KeyIndex(m, t) == CHOOSE k \in 1..Len(MapKeys(m)) : MapKeys(m)[k] = t

\* m.get(t).assignments, read through the heap o, a.
AssignmentsOf(m, o, a, t) == a[o[m[t]].assignments]

EmbeddedTaxonomyConfig(act, pt, cat, ct, tt) ==
  [active |-> act, parentTaxonomy |-> pt, parentCategory |-> cat,
   childTaxonomy |-> ct, targetTaxonomy |-> tt]

\* Math.round((p / Den) * (c / Den) / k) as a numerator over Den.  With
\* unit = k * Den, p = g * unit + h and c = e * unit + f, the quotient
\* p * c / (Den * unit) is g * e * k + (g * f + h * e) / Den
\* + h * f / (Den * unit); it is evaluated in these parts to stay within
\* 32-bit integers.
MulDivRound(p, c, k) ==
  LET unit == k * Den
      g == p \div unit
      h == p % unit
      e == c \div unit
      f == c % unit
      y == g * f + h * e
      z == h * f
      whole == g * e * k + (y \div Den) + (z \div (Den * unit))
      frac == (y % Den) * unit + (z % (Den * unit))
  IN Den * (whole + MathRound(frac, Den * unit))

\* The cascaded weight with 1_000 written for 10_000.
EmbeddedWeightPer1000(p, c) == MulDivRound(p, c, 1000)

\* Math.round((parentWeight * childAssignment.weight) / 10_000)
EmbeddedWeight(p, c) == MulDivRound(p, c, FullWeight)

\* pathEquals(path1, path2)
pathEquals(path1, path2) ==
  /\ Len(path1) = Len(path2)
  /\ \A i \in 1..Len(path1) : path1[i] = path2[i]

RECURSIVE findCategoryWeightAnyDepth(_, _)
\* findCategoryWeight without the test `a.path.length === 1`.
findCategoryWeightAnyDepth(assignments, category) ==
  IF assignments = <<>> THEN 0
  ELSE IF Head(assignments).path[1] = category
       THEN Head(assignments).weight
       ELSE findCategoryWeightAnyDepth(Tail(assignments), category)

RECURSIVE findCategoryWeight(_, _)
\* findCategoryWeight: the weight of the first assignment whose path is the
\* single segment `category`, 0 when there is none.
findCategoryWeight(assignments, category) ==
  IF assignments = <<>> THEN 0
  ELSE IF Len(Head(assignments).path) = 1 /\ Head(assignments).path[1] = category
       THEN Head(assignments).weight
       ELSE findCategoryWeight(Tail(assignments), category)

\* childResult.assignments.map(...) of step 3.
EmbeddedAssignments(config, parentWeight, childAssignments) ==
  [i \in 1..Len(childAssignments) |->
     Assignment(<<config.parentCategory>> \o childAssignments[i].path,
                EmbeddedWeight(parentWeight, childAssignments[i].weight))]

\* Step 4 without the filter.
WithoutPathKeepAll(assignments, path) == assignments

\* targetResult.assignments.filter(...) of step 4.
WithoutPath(assignments, path) ==
  SelectSeq(assignments, LAMBDA a : ~pathEquals(a.path, path))

\* The clone loop with results.set(key, value): the caller's objects reused.
CloneSharingObjects(m, o, a) ==
  [results |-> m, objs |-> o, arrays |-> a]

\* The clone loop at the head of applyEmbeddedTaxonomies: a new Map of new
\* TaxonomyResult objects, each with a new array holding the same elements.
CloneResults(m, o, a) ==
  LET keys == MapKeys(m)
      n == Len(keys)
  IN [results |-> [t \in DOMAIN m |-> Len(o) + KeyIndex(m, t)],
      objs    |-> o \o [k \in 1..n |->
                          [taxonomyId  |-> o[m[keys[k]]].taxonomyId,
                           assignments |-> Len(a) + k]],
      arrays  |-> a \o [k \in 1..n |-> a[o[m[keys[k]]].assignments]]]

\* One iteration of the loop over Object.entries(this.embeddedTaxonomiesConfig)
\* for `config`, on the Map res read through the heap o, a.  `from` is the
\* Map the parent and child results are looked up in (res in the code).
ApplyConfigOn(config, res, from, o, a) ==
  IF ~config.active
  THEN [objs |-> o, arrays |-> a, log |-> "continue"]
  ELSE IF \/ config.parentTaxonomy \notin DOMAIN from
          \/ config.childTaxonomy \notin DOMAIN from
          \/ config.targetTaxonomy \notin DOMAIN res
  THEN [objs |-> o, arrays |-> a, log |-> "missing taxonomy data"]
  ELSE LET parentWeight ==
             findCategoryWeight(AssignmentsOf(from, o, a, config.parentTaxonomy),
                                config.parentCategory)
       IN IF parentWeight = 0
          THEN [objs |-> o, arrays |-> a, log |-> "parent category not found"]
          ELSE LET embeddedAssignments ==
                     EmbeddedAssignments(config, parentWeight,
                       AssignmentsOf(from, o, a, config.childTaxonomy))
                   targetResult == res[config.targetTaxonomy]
                   filtered ==
                     WithoutPath(a[o[targetResult].assignments],
                                 <<config.parentCategory>>)
               IN [objs   |-> [o EXCEPT ![targetResult].assignments = Len(a) + 1],
                   arrays |-> Append(a, filtered \o embeddedAssignments),
                   log    |-> "created subcategories"]

\* The loop body with the `if (!config.active) continue` left out.
ApplyConfigIgnoringActive(config, res, o, a) ==
  ApplyConfigOn([config EXCEPT !.active = TRUE], res, res, o, a)

\* The loop body reading parent and child from the caller's Map.
ApplyConfigFromOriginal(config, res, o, a) ==
  ApplyConfigOn(config, res, securityResults, o, a)

\* The loop body writing the nested entries into the child's result.
ApplyConfigIntoChild(config, res, o, a) ==
  ApplyConfigOn([config EXCEPT !.targetTaxonomy = config.childTaxonomy],
                res, res, o, a)

\* The loop body of applyEmbeddedTaxonomies (lines 270-312).
ApplyConfig(config, res, o, a) == ApplyConfigOn(config, res, res, o, a)

EmbedClone ==
  /\ pc = "embed_clone"
  /\ LET c == CloneResults(securityResults, objs, arrays)
     IN /\ results' = c.results
        /\ objs' = c.objs
        /\ arrays' = c.arrays
  /\ cfgIdx' = 1
  /\ pc' = "embed_loop"
  /\ UNCHANGED <<normVars, batchVars, storeVars, assignVars, embeddedTaxonomiesConfig, securityResults, log,
               classifyVars>>

EmbedConfig ==
  /\ pc = "embed_loop"
  /\ cfgIdx <= Len(embeddedTaxonomiesConfig)
  /\ LET r == ApplyConfig(embeddedTaxonomiesConfig[cfgIdx], results, objs, arrays)
     IN /\ objs' = r.objs
        /\ arrays' = r.arrays
        /\ log' = IF r.log = "continue" THEN log
                  ELSE Append(log, [config |-> cfgIdx, message |-> r.log])
  /\ cfgIdx' = cfgIdx + 1
  /\ UNCHANGED <<pc, normVars, batchVars, storeVars, assignVars, embeddedTaxonomiesConfig, securityResults, results,
               classifyVars>>

EmbedReturn ==
  /\ pc = "embed_loop"
  /\ cfgIdx > Len(embeddedTaxonomiesConfig)
  /\ pc' = "embedded"
  /\ UNCHANGED <<normVars, batchVars, storeVars, assignVars, embedVars, classifyVars>>

(***************************************************************************)
(* SpecEmbed: applyEmbeddedTaxonomies on a Map of assigner results.        *)
(***************************************************************************)

A1(name, w) == Assignment(<<name>>, w)

\* Results the Taxonomy Assigner can hand over for asset_type.
AssetInputs ==
  { <<A1("Stock", W(8000, 0)), A1("Bond", W(2000, 0))>>,
    <<A1("Stock", W(6000, 0)), A1("Bond", W(3000, 0)), A1("Cash", W(1000, 0))>>,
    <<A1("Bond", W(10000, 0))>>,
    <<A1("Stock", 0), A1("Bond", W(10000, 0))>>,
    <<A1("Stock", W(3333, 1)), A1("Bond", W(6666, Den - 1))>>,
    <<A1("Stock", W(3333, 0)), A1("Bond", W(6667, 0))>>,
    <<A1("Stock", W(1, 0)), A1("Bond", W(9999, 0))>>,
    <<Assignment(<<"Stock", "US">>, W(5000, 0)), A1("Stock", W(5000, 0))>>,
    <<Assignment(<<"Stock", "US">>, W(6000, 0)), A1("Bond", W(4000, 0))>>,
    <<A1("Stock", W(10500, 0)), A1("Cash", W(-500, 0))>> }

\* Results the Taxonomy Assigner can hand over for stock_style.
StyleInputs ==
  { <<A1("Growth", W(7000, 0)), A1("Value", W(3000, 0))>>,
    <<A1("Growth", W(5000, 0)), A1("Value", W(5000, 0))>>,
    <<A1("Growth", W(3333, 1)), A1("Value", W(3333, 1)), A1("Blend", W(3333, 1))>>,
    <<Assignment(<<"Large", "Growth">>, W(10000, 0))>>,
    <<A1("US", W(6000, 0)), A1("Growth", W(4000, 0))>>,
    <<>> }

\* Results the Taxonomy Assigner can hand over for bond_sector.
SectorInputs ==
  { <<A1("Gov", W(7000, 0)), A1("Corp", W(3000, 0))>>,
    <<A1("Gov", W(5000, 1))>> }

InputsFor(t) ==
  CASE t = "asset_type" -> AssetInputs
    [] t = "stock_style" -> StyleInputs
    [] t = "bond_sector" -> SectorInputs

\* Entries embeddedTaxonomies may declare.
EmbeddedChoices ==
  { EmbeddedTaxonomyConfig(TRUE, "asset_type", "Stock", "stock_style", "asset_type"),
    EmbeddedTaxonomyConfig(TRUE, "asset_type", "Bond", "bond_sector", "asset_type"),
    EmbeddedTaxonomyConfig(TRUE, "asset_type", "Stock", "stock_style", "bond_sector"),
    EmbeddedTaxonomyConfig(TRUE, "asset_type", "Stock", "stock_style", "stock_style"),
    EmbeddedTaxonomyConfig(FALSE, "asset_type", "Stock", "stock_style", "asset_type"),
    EmbeddedTaxonomyConfig(TRUE, "stock_style", "Growth", "bond_sector", "stock_style") }

ConfigLists ==
  UNION { [1..n -> EmbeddedChoices] : n \in 0..MaxConfigs }

\* The Map, the objects and the arrays the caller built for the value map f.
HeapOf(f) ==
  LET keys == MapKeys(f)
  IN [securityResults |-> [t \in DOMAIN f |-> KeyIndex(f, t)],
      objs   |-> [k \in 1..Len(keys) |->
                    [taxonomyId |-> keys[k], assignments |-> k]],
      arrays |-> [k \in 1..Len(keys) |-> f[keys[k]]]]

InitEmbed ==
  /\ pc = "embed_clone"
  /\ normIn = <<>>
  /\ normOut = <<>>
  /\ embeddedTaxonomiesConfig \in ConfigLists
  /\ \E S \in SUBSET TaxIds :
       \E f \in [S -> AssetInputs \cup StyleInputs \cup SectorInputs] :
         /\ \A t \in S : f[t] \in InputsFor(t)
         /\ securityResults = HeapOf(f).securityResults
         /\ objs = HeapOf(f).objs
         /\ arrays = HeapOf(f).arrays
  /\ results = <<>>
  /\ cfgIdx = 0
  /\ log = <<>>
  /\ AssignIdle
  /\ BatchIdle
  /\ StoreIdle
  /\ ClassifyIdle

NextEmbed == EmbedClone \/ EmbedConfig \/ EmbedReturn

SpecEmbed == InitEmbed /\ [][NextEmbed]_vars

(***************************************************************************)
(* Claims about the Embedding Engine, checked under SpecEmbed.             *)
(***************************************************************************)

\* What the caller sees through its own Map: taxonomy id -> assignment list.
CallerView ==
  [t \in DOMAIN securityResults |->
     AssignmentsOf(securityResults, objs, arrays, t)]

\* What the Map built by applyEmbeddedTaxonomies holds.
ResultsView ==
  [t \in DOMAIN results |-> AssignmentsOf(results, objs, arrays, t)]

\* The config the next EmbedConfig step processes.
CurrentConfig == embeddedTaxonomiesConfig[cfgIdx]

\* An EmbedConfig step is about to process a config.
AtConfig == pc = "embed_loop" /\ cfgIdx <= Len(embeddedTaxonomiesConfig)

\* Parent, child and target of config c are all in the current Map.
AllPresent(c) ==
  /\ c.parentTaxonomy \in DOMAIN results
  /\ c.childTaxonomy \in DOMAIN results
  /\ c.targetTaxonomy \in DOMAIN results

\* Positions of the parent result that hold exactly the path [parentCategory].
ParentEntries(c) ==
  { i \in 1..Len(ResultsView[c.parentTaxonomy]) :
      ResultsView[c.parentTaxonomy][i].path = <<c.parentCategory>> }

\* The parent weight the code cascades: that of the first such entry.
ParentWeight(c) ==
  ResultsView[c.parentTaxonomy]
    [CHOOSE i \in ParentEntries(c) : \A j \in ParentEntries(c) : i <= j].weight

\* Config c is active, has its three results, and its parent category
\* carries a weight other than 0.
Cascades(c) ==
  /\ c.active
  /\ AllPresent(c)
  /\ ParentEntries(c) # {}
  /\ ParentWeight(c) # 0

\* The integer r is Math.round of the product of the fractions p / Den and
\* cw / Den divided by 10000: r - 1/2 <= p * cw / (Den * Den * 10000) < r + 1/2.
IsRoundedCascade(r, p, cw) ==
  LET d == Den * Den * FullWeight
  IN /\ r * d - d \div 2 <= p * cw
     /\ p * cw < r * d + d \div 2

\* Target entries that survive step 4, in order.
KeptTarget(c) ==
  SelectSeq(ResultsView[c.targetTaxonomy],
            LAMBDA a : a.path # <<c.parentCategory>>)

\* A step of the program, as claim C5 describes it.
EmbeddingReplacesParentStep ==
  (AtConfig /\ Cascades(CurrentConfig)) =>
        LET c == CurrentConfig
            kept == KeptTarget(c)
            child == ResultsView[c.childTaxonomy]
            after == ResultsView'[c.targetTaxonomy]
        IN /\ Len(after) = Len(kept) + Len(child)
           /\ \A k \in 1..Len(kept) : after[k] = kept[k]
           /\ \A i \in 1..Len(child) :
                /\ after[Len(kept) + i].path = <<c.parentCategory>> \o child[i].path
                /\ after[Len(kept) + i].weight % Den = 0
                /\ IsRoundedCascade(after[Len(kept) + i].weight \div Den,
                                    ParentWeight(c), child[i].weight)
           /\ \A t \in DOMAIN results \ {c.targetTaxonomy} :
                ResultsView'[t] = ResultsView[t]

\* C5: when an active config finds its three results and a parent entry
\* [parentCategory] of weight P # 0, the target afterwards is its former
\* entries without the entry [parentCategory], each with its path and weight,
\* followed by one entry [parentCategory] ++ c.path of weight
\* round(P * c.weight / 10000) for every child assignment c.
C5_EmbeddingReplacesParent == [][EmbeddingReplacesParentStep]_vars

\* The message the last processed config left on the console.
LastMessage(m) ==
  /\ log # <<>>
  /\ log[Len(log)].config = cfgIdx - 1
  /\ log[Len(log)].message = m

\* C5 witness: a config has just nested two child entries under "Stock" in a
\* target that kept another entry, and one nested weight needed rounding.
C5_Witness ==
  /\ pc = "embed_loop"
  /\ LastMessage("created subcategories")
  /\ LET c == embeddedTaxonomiesConfig[cfgIdx - 1]
         after == ResultsView[c.targetTaxonomy]
     IN /\ c.parentCategory = "Stock"
        /\ Len(after) = 3
        /\ after[1].path = <<"Bond">>
        /\ after[2].path = <<"Stock", "Growth">>
        /\ after[2].weight = W(1667, 0)
        /\ after[3].path = <<"Stock", "Value">>

\* Sum of cw over the child list times p, against the sum s of the nested
\* weights: |s * 10000 - p * total| <= n * 10000 in basis points.
WithinBasisPoints(s, p, total, n) ==
  LET lhs == (s \div Den) * FullWeight
      rhs == (p \div Den) * (total \div Den)
  IN /\ lhs - rhs <= n * FullWeight
     /\ rhs - lhs <= n * FullWeight

\* All weights of list l are whole basis points.
WholeWeights(l) == \A i \in 1..Len(l) : l[i].weight % Den = 0

\* A step of the program, as claim C6 describes it.
WeightConservationStep ==
  (/\ AtConfig
       /\ Cascades(CurrentConfig)
       /\ ParentWeight(CurrentConfig) % Den = 0
       /\ ParentWeight(CurrentConfig) >= W(1, 0)
       /\ ParentWeight(CurrentConfig) <= W(FullWeight, 0)
       /\ WholeWeights(ResultsView[CurrentConfig.childTaxonomy])
       /\ SumWeights(ResultsView[CurrentConfig.childTaxonomy]) <= W(FullWeight, 0)) =>
        LET c == CurrentConfig
            p == ParentWeight(c)
            child == ResultsView[c.childTaxonomy]
            n == Len(child)
            after == ResultsView'[c.targetTaxonomy]
            nested == SubSeq(after, Len(after) - n + 1, Len(after))
            exact == \A i \in 1..n :
                       ((p \div Den) * (child[i].weight \div Den)) % FullWeight = 0
        IN /\ WithinBasisPoints(SumWeights(nested), p, SumWeights(child), n)
           /\ (SumWeights(child) = W(FullWeight, 0) /\ exact) =>
                /\ SumWeights(nested) = p
                /\ (c.targetTaxonomy = c.parentTaxonomy /\ Cardinality(ParentEntries(c)) = 1) =>
                     SumWeights(after) = SumWeights(ResultsView[c.targetTaxonomy])

\* C6: for an integer parent weight P in 1..10000 and n child entries of
\* integer weights summing to C_total <= 10000, the nested weights sum to
\* within n basis points of P * C_total / 10000; when C_total = 10000 and no
\* product needs rounding they sum to exactly P, and a target that is also
\* the parent keeps its total.
C6_WeightConservation == [][WeightConservationStep]_vars

\* C6 witness: an integer parent weight was cascaded over child weights
\* summing to 10000 with rounding, and the nested weights sum to one basis
\* point more than the parent weight.
C6_Witness ==
  /\ pc = "embed_loop"
  /\ LastMessage("created subcategories")
  /\ LET c == embeddedTaxonomiesConfig[cfgIdx - 1]
         after == ResultsView[c.targetTaxonomy]
     IN /\ c.targetTaxonomy = c.parentTaxonomy
        /\ CallerView[c.childTaxonomy] =
             <<A1("Growth", W(5000, 0)), A1("Value", W(5000, 0))>>
        /\ after = <<A1("Bond", W(6667, 0)),
                     Assignment(<<"Stock", "Growth">>, W(1667, 0)),
                     Assignment(<<"Stock", "Value">>, W(1667, 0))>>

\* A step of the program, as claim C7 describes it.
SkipWithoutParentWeightStep ==
  (/\ AtConfig
       /\ CurrentConfig.active
       /\ AllPresent(CurrentConfig)
       /\ \/ ParentEntries(CurrentConfig) = {}
          \/ ParentWeight(CurrentConfig) = 0) =>
        /\ ResultsView' = ResultsView
        /\ results' = results
        /\ cfgIdx' = cfgIdx + 1

\* C7: when the parent result has no assignment whose path is exactly
\* [parentCategory], or that assignment has weight 0, the step changes no
\* result of the Map.
C7_SkipWithoutParentWeight == [][SkipWithoutParentWeightStep]_vars

\* C7 witness: two configs in a row were skipped, the first because its
\* parent category weighed 0, the second because its parent held no entry for
\* the category at all.
C7_Witness ==
  /\ pc = "embed_loop"
  /\ cfgIdx = 3
  /\ log = <<[config |-> 1, message |-> "parent category not found"],
             [config |-> 2, message |-> "parent category not found"]>>
  /\ ParentEntries(embeddedTaxonomiesConfig[1]) # {}
  /\ ParentWeight(embeddedTaxonomiesConfig[1]) = 0
  /\ ParentEntries(embeddedTaxonomiesConfig[2]) = {}

\* A step of the program, as claim C8 describes it.
InactiveOrAbsentStep ==
  (AtConfig /\ (~CurrentConfig.active \/ ~AllPresent(CurrentConfig))) =>
        /\ ResultsView' = ResultsView
        /\ results' = results
        /\ pc' = "embed_loop"
        /\ cfgIdx' = cfgIdx + 1

\* C8: a config that is inactive, or one of whose parent, child or target
\* ids is not in the Map, leaves the Map as it was, and the loop goes on to
\* the next config.
C8_InactiveOrAbsentIsNoOp == [][InactiveOrAbsentStep]_vars

\* C8 witness: an inactive config whose parent category carried weight has
\* been passed over, behind a config skipped for a missing taxonomy.
C8_Witness ==
  /\ pc = "embed_loop"
  /\ cfgIdx = 3
  /\ log = <<[config |-> 1, message |-> "missing taxonomy data"]>>
  /\ ~embeddedTaxonomiesConfig[2].active
  /\ AllPresent(embeddedTaxonomiesConfig[2])
  /\ ParentEntries(embeddedTaxonomiesConfig[2]) # {}
  /\ ParentWeight(embeddedTaxonomiesConfig[2]) # 0

\* A step of the program, as claim C9 describes it.
CallerMapUntouchedStep ==
  pc \in {"embed_clone", "embed_loop"} =>
        /\ securityResults' = securityResults
        /\ CallerView' = CallerView

\* C9: no step of applyEmbeddedTaxonomies changes the Map it was given:
\* every taxonomy id of the caller's Map keeps its assignment list.
C9_CallerMapUntouched == [][CallerMapUntouchedStep]_vars

\* C9 witness: the returned Map differs from the caller's after an
\* embedding was applied.
C9_Witness ==
  /\ pc = "embedded"
  /\ \E k \in 1..Len(log) : log[k].message = "created subcategories"
  /\ \E t \in DOMAIN results : ResultsView[t] # CallerView[t]

\* The single-config step on a value map v (taxonomy id -> list).
StepOnView(v, c) ==
  IF \/ ~c.active
     \/ {c.parentTaxonomy, c.childTaxonomy, c.targetTaxonomy} \ DOMAIN v # {}
  THEN v
  ELSE LET hits == { i \in 1..Len(v[c.parentTaxonomy]) :
                       v[c.parentTaxonomy][i].path = <<c.parentCategory>> }
           first == CHOOSE i \in hits : \A j \in hits : i <= j
           p == IF hits = {} THEN 0 ELSE v[c.parentTaxonomy][first].weight
       IN IF p = 0 THEN v
          ELSE [v EXCEPT ![c.targetTaxonomy] =
                  SelectSeq(v[c.targetTaxonomy],
                            LAMBDA a : a.path # <<c.parentCategory>>)
                  \o [i \in 1..Len(v[c.childTaxonomy]) |->
                        Assignment(<<c.parentCategory>> \o v[c.childTaxonomy][i].path,
                                   EmbeddedWeight(p, v[c.childTaxonomy][i].weight))]]

RECURSIVE FoldConfigs(_, _, _)
\* The step folded over the first n configs of list l, in order.
FoldConfigs(v, l, n) ==
  IF n = 0 THEN v ELSE StepOnView(FoldConfigs(v, l, n - 1), l[n])

\* C10: the configs are applied in declaration order, each on the Map as
\* the configs before it left it: after k configs the Map equals the
\* single-config step folded over the first k configs, and the returned Map
\* equals the fold over all of them.
C10_FoldInDeclarationOrder ==
  /\ pc = "embed_loop" =>
       ResultsView = FoldConfigs(CallerView, embeddedTaxonomiesConfig, cfgIdx - 1)
  /\ pc = "embedded" =>
       ResultsView = FoldConfigs(CallerView, embeddedTaxonomiesConfig,
                                 Len(embeddedTaxonomiesConfig))

\* C10 witness: Stock 60 / Bond 30 / Cash 10 with one config nesting the
\* style under Stock and a later one nesting the sector under Bond.
C10_Witness ==
  /\ pc = "embedded"
  /\ Len(embeddedTaxonomiesConfig) = 2
  /\ "asset_type" \in DOMAIN results
  /\ CallerView["asset_type"] =
       <<A1("Stock", W(6000, 0)), A1("Bond", W(3000, 0)), A1("Cash", W(1000, 0))>>
  /\ ResultsView["asset_type"] =
       <<A1("Cash", W(1000, 0)),
         Assignment(<<"Stock", "Growth">>, W(3000, 0)),
         Assignment(<<"Stock", "Value">>, W(3000, 0)),
         Assignment(<<"Bond", "Gov">>, W(2100, 0)),
         Assignment(<<"Bond", "Corp">>, W(900, 0))>>

\* No two assignments of the list l have element-wise identical paths.
PathsUnique(l) ==
  \A i, j \in 1..Len(l) : i # j => ~pathEquals(l[i].path, l[j].path)

\* C13: the results handed to applyEmbeddedTaxonomies have unique paths, and
\* so has every result of the Map it builds, after every config and when it
\* returns.
C13_EmbeddedPathsUnique ==
  (\A t \in DOMAIN securityResults : PathsUnique(CallerView[t])) =>
    (pc \in {"embed_loop", "embedded"} =>
       \A t \in DOMAIN results : PathsUnique(ResultsView[t]))

(***************************************************************************)
(* The Taxonomy Assigner: getMapping and assignItems.                      *)
(***************************************************************************)

\* A value of a mapping table: a name or a list of names, kept as a path.
Target(p) == [null |-> FALSE, path |-> p]

\* A mapping table entry whose value is null.
NullTarget == [null |-> TRUE, path |-> <<>>]

\* The mapping table {}.
EmptyTable == [k \in {} |-> NullTarget]

\* config.get("mappings"): the registry of named mapping tables.
globalMappings ==
  [AssetTypeMap |->
     ("1" :> Target(<<"Stock">>)) @@ ("11" :> Target(<<"Stock">>)) @@
     ("3" :> Target(<<"Bond">>)) @@ ("7" :> Target(<<"Cash">>)) @@
     ("5" :> Target(<<"Stock", "US">>)) @@ ("99" :> NullTarget)]

\* The `mapping` field of a config: absent, the name of a registry entry,
\* or a table written in place.
NoMapping == [kind |-> "undefined", key |-> "", table |-> EmptyTable]

MappingKey(name) == [kind |-> "key", key |-> name, table |-> EmptyTable]

MappingTable(t) == [kind |-> "table", key |-> "", table |-> t]

getMapping(mappingOrKey) ==
  IF mappingOrKey.kind = "undefined" \/ (mappingOrKey.kind = "key" /\ mappingOrKey.key = "")
  THEN EmptyTable
  ELSE IF mappingOrKey.kind = "key"
  THEN IF mappingOrKey.key \in DOMAIN globalMappings
       THEN globalMappings[mappingOrKey.key]
       ELSE EmptyTable
  ELSE mappingOrKey.table

\* item[valueField]: a number v, kept as the numerator of v * 100.
Number(w) == [kind |-> "number", weight |-> w]

\* item[valueField] is a string that is not a number: v * 100 is NaN.
Text == [kind |-> "text", weight |-> 0]

\* item[valueField] is undefined.
Undefined == [kind |-> "undefined", weight |-> 0]

\* A raw item of the provider: item[keyField] ("" when absent) and
\* item[valueField].
Item(k, v) == [key |-> k, value |-> v]

\* JavaScript truthiness of item[valueField].
Truthy(value) ==
  \/ value.kind = "text"
  \/ value.kind = "number" /\ value.weight # 0

\* assignments.push({ path, weight }) without looking for the path.
AccumulateAppending(assignments, path, weight) ==
  Append(assignments, Assignment(path, weight))

\* find, then existingAssignment.weight = weight in place of += weight.
AccumulateOverwriting(assignments, path, weight) ==
  LET found == { i \in 1..Len(assignments) : pathEquals(assignments[i].path, path) }
  IN IF found = {}
     THEN Append(assignments, Assignment(path, weight))
     ELSE LET i == CHOOSE k \in found : \A j \in found : k <= j
          IN [assignments EXCEPT ![i].weight = weight]

\* assignments.find((a) => this.pathEquals(a.path, path)), then either
\* existingAssignment.weight += weight or assignments.push({ path, weight }).
Accumulate(assignments, path, weight) ==
  LET found == { i \in 1..Len(assignments) : pathEquals(assignments[i].path, path) }
  IN IF found = {}
     THEN Append(assignments, Assignment(path, weight))
     ELSE LET i == CHOOSE k \in found : \A j \in found : k <= j
          IN [assignments EXCEPT ![i].weight = assignments[i].weight + weight]

\* The loop body with a key the table does not hold passed through as [key].
AssignItemPassingUnmapped(mapping, item, assignments) ==
  LET key == item.key
      value == item.value
      weight == value.weight
  IN IF ~(key # "" /\ Truthy(value)) THEN assignments
     ELSE IF value.kind = "text" THEN assignments
     ELSE IF DOMAIN mapping = {} \/ key \notin DOMAIN mapping
     THEN Accumulate(assignments, <<key>>, weight)
     ELSE IF ~mapping[key].null /\ weight > 0
          THEN Accumulate(assignments, mapping[key].path, weight)
          ELSE assignments

\* The body of the loop of assignItems for one item.
AssignItem(mapping, item, assignments) ==
  LET key == item.key
      value == item.value
      weight == value.weight
  IN IF ~(key # "" /\ Truthy(value)) THEN assignments
     ELSE IF value.kind = "text" THEN assignments
     ELSE IF DOMAIN mapping = {}
     THEN Accumulate(assignments, <<key>>, weight)
     ELSE IF key \in DOMAIN mapping
     THEN IF ~mapping[key].null /\ weight > 0
          THEN Accumulate(assignments, mapping[key].path, weight)
          ELSE assignments
     ELSE assignments

RECURSIVE assignItems(_, _, _)
assignItems(taxConfig, itemsToProcess, assignments) ==
  IF itemsToProcess = <<>> THEN assignments
  ELSE assignItems(taxConfig, Tail(itemsToProcess),
                   AssignItem(getMapping(taxConfig.mapping),
                              Head(itemsToProcess), assignments))

\* get(data, taxConfig.sourcePath): nothing, something that is not an array,
\* or an array of groups.
NoSource == [kind |-> "undefined", groups |-> <<>>]

NotAnArray == [kind |-> "object", groups |-> <<>>]

Source(groups) == [kind |-> "array", groups |-> groups]

\* An element of the source array: whether taxConfig.filter matches it,
\* its BreakdownValues array if it has one, and its own key and value fields.
Group(m, items) ==
  [matches |-> m, hasBreakdownValues |-> TRUE, BreakdownValues |-> items,
   key |-> "", value |-> Undefined]

FlatGroup(m, k, v) ==
  [matches |-> m, hasBreakdownValues |-> FALSE, BreakdownValues |-> <<>>,
   key |-> k, value |-> v]

\* Step 2 of classifyFund keeping every matching group whatever multigroup.
filteredDataAllGroups(taxConfig, sourceData) ==
  IF taxConfig.filter
  THEN SelectSeq(sourceData.groups, LAMBDA g : g.matches)
  ELSE sourceData.groups

\* Step 2 of classifyFund: _filter(sourceData, taxConfig.filter), then the
\* first group only unless taxConfig.multigroup.
filteredData(taxConfig, sourceData) ==
  LET matching == IF taxConfig.filter
                  THEN SelectSeq(sourceData.groups, LAMBDA g : g.matches)
                  ELSE sourceData.groups
  IN IF ~taxConfig.multigroup /\ Len(matching) > 1
     THEN <<matching[1]>>
     ELSE matching

RECURSIVE itemsToProcess(_)
\* Step 2.1 of classifyFund: BreakdownValues of every group, or the group.
itemsToProcess(groups) ==
  IF groups = <<>> THEN <<>>
  ELSE (IF Head(groups).hasBreakdownValues
        THEN Head(groups).BreakdownValues
        ELSE <<Item(Head(groups).key, Head(groups).value)>>)
       \o itemsToProcess(Tail(groups))

(***************************************************************************)
(* classifySecurity, classifyFund and classifyStock.                       *)
(***************************************************************************)

\* security.ignoreTaxonomies: undefined, true, or a list of taxonomy ids.
IgnoreNone == [kind |-> "undefined", list |-> {}]

IgnoreAll == [kind |-> "all", list |-> {}]

IgnoreList(l) == [kind |-> "list", list |-> l]

\* A PPSecurity: whether it has an isin, an isinOverride, and its directive.
PPSecurity(i, o, ign) == [isin |-> i, isinOverride |-> o, ignoreTaxonomies |-> ign]

\* taxConfig.stockConfig of a taxonomy that has none.
NoStockConfig ==
  [defined |-> FALSE, isSingleValue |-> FALSE, hasValue |-> FALSE,
   value |-> <<>>, sourcePath |-> FALSE, salEndpoint |-> FALSE,
   viewId |-> FALSE, mapping |-> NoMapping]

\* stockConfig with a static value.
StaticStockConfig(path) ==
  [NoStockConfig EXCEPT !.defined = TRUE, !.isSingleValue = TRUE,
                        !.hasValue = TRUE, !.value = path]

\* stockConfig reading a field: from a SAL endpoint, a view or the payload.
FieldStockConfig(sal, view, m) ==
  [NoStockConfig EXCEPT !.defined = TRUE, !.sourcePath = TRUE,
                        !.salEndpoint = sal, !.viewId = view, !.mapping = m]

TaxonomyConfig(act, view, flt, multi, m, sc) ==
  [active |-> act, viewId |-> view, filter |-> flt, multigroup |-> multi,
   mapping |-> m, stockConfig |-> sc]

\* isTaxonomyNeededForEmbedding counting the target of a config as well.
isTaxonomyNeededForEmbeddingOrTarget(taxonomyId) ==
  \E i \in 1..Len(embeddedTaxonomiesConfig) :
    /\ embeddedTaxonomiesConfig[i].active
    /\ \/ embeddedTaxonomiesConfig[i].childTaxonomy = taxonomyId
       \/ embeddedTaxonomiesConfig[i].parentTaxonomy = taxonomyId
       \/ embeddedTaxonomiesConfig[i].targetTaxonomy = taxonomyId

\* if (!taxConfig.active && !isNeededForEmbedding) continue, and the check
\* of security.ignoreTaxonomies that follows it.
isTaxonomyNeededForEmbedding(taxonomyId) ==
  \E i \in 1..Len(embeddedTaxonomiesConfig) :
    /\ embeddedTaxonomiesConfig[i].active
    /\ \/ embeddedTaxonomiesConfig[i].childTaxonomy = taxonomyId
       \/ embeddedTaxonomiesConfig[i].parentTaxonomy = taxonomyId

\* The check of security.ignoreTaxonomies without the test of the list.
IsIgnoredOnlyAll(taxonomyId) ==
  security.ignoreTaxonomies.kind = "all"

IsIgnored(taxonomyId) ==
  /\ security.ignoreTaxonomies.kind # "undefined"
  /\ \/ security.ignoreTaxonomies.kind = "all"
     \/ taxonomyId \in security.ignoreTaxonomies.list

IsSkipped(taxonomyId) ==
  \/ ~taxonomiesConfig[taxonomyId].active /\ ~isTaxonomyNeededForEmbedding(taxonomyId)
  \/ IsIgnored(taxonomyId)

\* map.set(key, value) on a Map kept as a function.
MapSet(m, key, value) ==
  [k \in DOMAIN m \cup {key} |-> IF k = key THEN value ELSE m[k]]

\* The response of the provider: null, or type, secid and payload.  The
\* payload holds, per taxonomy, what lies at taxConfig.sourcePath and at
\* stockConfig.sourcePath.
NoData ==
  [present |-> FALSE,
   breakdowns |-> [t \in TaxIds |-> NoSource],
   fields |-> [t \in TaxIds |-> ""]]

Breakdowns(asset, style, sector) ==
  [present |-> TRUE,
   breakdowns |-> [t \in TaxIds |-> CASE t = "asset_type" -> asset
                                      [] t = "stock_style" -> style
                                      [] t = "bond_sector" -> sector],
   fields |-> [t \in TaxIds |-> ""]]

Fields(sector) ==
  [present |-> TRUE,
   breakdowns |-> [t \in TaxIds |-> NoSource],
   fields |-> [t \in TaxIds |-> IF t = "bond_sector" THEN sector ELSE ""]]

NoSecurityInfo == [found |-> FALSE, type |-> "Unknown", secid |-> FALSE, data |-> NoData]

SecurityInfo(type, secid, d) == [found |-> TRUE, type |-> type, secid |-> secid, data |-> d]

\* Breakdowns the provider may report at the sourcePath of asset_type.
AssetBreakdowns ==
  { Source(<<Group(TRUE, <<Item("1", Number(W(3000, 0))),
                           Item("11", Number(W(5000, 0))),
                           Item("3", Number(W(2000, 0)))>>)>>),
    Source(<<Group(TRUE, <<Item("1", Number(W(10500, 0))),
                           Item("7", Number(W(-500, 0)))>>)>>),
    Source(<<Group(TRUE, <<Item("1", Number(W(6000, 0))),
                           Item("42", Number(W(1000, 0))),
                           Item("99", Number(W(500, 0))),
                           Item("3", Text),
                           Item("", Number(W(100, 0))),
                           Item("7", Number(0)),
                           Item("3", Number(W(3333, 1)))>>),
             Group(TRUE, <<Item("1", Number(W(9000, 0)))>>)>>) }

\* Breakdowns the provider may report at the sourcePath of stock_style.
StyleBreakdowns ==
  { Source(<<Group(FALSE, <<Item("Blend", Number(W(10000, 0)))>>),
             Group(TRUE, <<Item("Growth", Number(W(7000, 0))),
                           Item("Value", Number(W(3000, 0)))>>),
             Group(TRUE, <<Item("Blend", Number(W(10000, 0)))>>)>>),
    Source(<<Group(TRUE, <<Item("Growth", Number(W(11000, 0))),
                           Item("Value", Number(W(-1000, 0)))>>)>>),
    Source(<<Group(FALSE, <<Item("Growth", Number(W(10000, 0)))>>)>>),
    Source(<<Group(TRUE, <<Item("Growth", Number(0)),
                           Item("", Number(W(5000, 0)))>>)>>),
    NotAnArray }

\* Breakdowns the provider may report at the sourcePath of bond_sector.
SectorBreakdowns ==
  { Source(<<FlatGroup(TRUE, "10", Number(W(6000, 0))),
             Group(TRUE, <<Item("10", Number(W(1000, 0))),
                           Item("20", Number(W(3000, 0)))>>)>>),
    NoSource }

\* What api.getSecurityData(id) may return.
ProviderResponses ==
  { NoSecurityInfo,
    SecurityInfo("Unknown", TRUE, NoData),
    SecurityInfo("Stock", FALSE, NoData),
    SecurityInfo("Stock", TRUE, NoData),
    SecurityInfo("Stock", TRUE, Fields("Gov")),
    SecurityInfo("Stock", FALSE, Fields("Gov")) }
  \cup { SecurityInfo("Fund", TRUE, Breakdowns(a, s, b)) :
           a \in AssetBreakdowns, s \in StyleBreakdowns, b \in SectorBreakdowns }

\* The breakdown a supplementary view reports at the sourcePath of
\* stock_style.
ViewStyle ==
  Source(<<Group(TRUE, <<Item("Growth", Number(W(3333, 1))),
                         Item("Value", Number(W(3333, 1))),
                         Item("Blend", Number(W(3333, 1)))>>)>>)

\* What api.getSecurityData(id, taxConfig.viewId) may return: null, or a
\* payload whose top-level keys Object.assign copies over those of `data`.
\* `data` gives, per taxonomy whose sourcePath lies under a key the payload
\* holds, what the payload has at that path: the payload may hold the key
\* of stock_style alone, or a key that all three sourcePaths lie under
\* (Portfolios) with only the breakdown of stock_style in it.
ViewResponses ==
  { [ok |-> FALSE, data |-> <<>>],
    [ok |-> TRUE, data |-> [t \in {"stock_style"} |-> ViewStyle]],
    [ok |-> TRUE,
     data |-> [t \in TaxIds |-> IF t = "stock_style" THEN ViewStyle
                               ELSE NoSource]] }

\* What api.getSalData or the view request of classifyStock may return:
\* null, or a payload with the value at stockConfig.sourcePath.
LookupResponses ==
  { [ok |-> FALSE, key |-> ""],
    [ok |-> TRUE, key |-> ""],
    [ok |-> TRUE, key |-> "Growth"],
    [ok |-> TRUE, key |-> "Blend"],
    [ok |-> TRUE, key |-> "Value"] }

classifySecurity ==
  /\ pc = "start"
  /\ IF \/ ~security.isin /\ ~security.isinOverride
        \/ security.ignoreTaxonomies.kind = "all"
     THEN /\ pc' = "done"
          /\ UNCHANGED <<securityInfo, data, taxIdx, fetches>>
     ELSE \E info \in ProviderResponses :
            /\ securityInfo' = info
            /\ data' = info.data
            /\ fetches' = fetches + 1
            /\ taxIdx' = 1
            /\ pc' = IF ~info.found THEN "done"
                     ELSE IF info.type = "Stock"
                     THEN IF ~info.secid /\ ~info.data.present
                          THEN "done" ELSE "stock_loop"
                     ELSE IF info.type = "Fund" THEN "fund_loop"
                     ELSE "done"
  /\ UNCHANGED <<normVars, batchVars, storeVars, assignVars, embedVars, security, taxonomiesConfig, writeIdx,
                 storeCalls, sourceDataOf>>

\* One iteration of the loop of classifyFund over taxonomiesConfig.
classifyFundTaxonomy ==
  /\ pc = "fund_loop"
  /\ taxIdx <= Len(TaxOrder)
  /\ LET taxonomyId == TaxOrder[taxIdx]
         taxConfig == taxonomiesConfig[taxonomyId]
     IN IF IsSkipped(taxonomyId)
        THEN UNCHANGED <<data, fetches, securityResults, objs, arrays,
                         sourceDataOf>>
        ELSE \E additionalData \in ViewResponses :
               LET merged ==
                     IF taxConfig.viewId /\ additionalData.ok
                     THEN [data EXCEPT !.breakdowns =
                             [t \in TaxIds |->
                                IF t \in DOMAIN additionalData.data
                                THEN additionalData.data[t]
                                ELSE data.breakdowns[t]]]
                     ELSE data
                   sourceData == merged.breakdowns[taxonomyId]
                   groups == filteredData(taxConfig, sourceData)
               IN /\ data' = merged
                  /\ sourceDataOf' = MapSet(sourceDataOf, taxonomyId, sourceData)
                  /\ fetches' = IF taxConfig.viewId THEN fetches + 1 ELSE fetches
                  /\ IF sourceData.kind # "array" \/ Len(groups) = 0
                     THEN UNCHANGED <<securityResults, objs, arrays>>
                     ELSE /\ securityResults' =
                               MapSet(securityResults, taxonomyId, Len(objs) + 1)
                          /\ objs' = Append(objs, [taxonomyId |-> taxonomyId,
                                                   assignments |-> Len(arrays) + 1])
                          /\ arrays' = Append(arrays,
                               assignItems(taxConfig, itemsToProcess(groups), <<>>))
  /\ taxIdx' = taxIdx + 1
  /\ UNCHANGED <<pc, normVars, batchVars, storeVars, assignVars, embeddedTaxonomiesConfig, results, cfgIdx, log,
                 security, taxonomiesConfig, securityInfo, writeIdx, storeCalls>>

\* classifyStock taking a value the mapping does not hold as its own path.
StockAssignmentsKeepingUnmapped(stockConfig, response) ==
  IF stockConfig.isSingleValue /\ stockConfig.hasValue
  THEN [fetched |-> FALSE,
        assignments |-> <<Assignment(stockConfig.value, FullWeight * Den)>>]
  ELSE IF ~stockConfig.sourcePath
  THEN [fetched |-> FALSE, assignments |-> <<>>]
  ELSE LET remote == stockConfig.salEndpoint \/ stockConfig.viewId
           fetched == IF stockConfig.salEndpoint THEN securityInfo.secid
                      ELSE stockConfig.viewId
           failed == \/ stockConfig.salEndpoint /\ ~securityInfo.secid
                     \/ remote /\ ~response.ok
           key == IF remote THEN response.key
                  ELSE data.fields[TaxOrder[taxIdx]]
       IN [fetched |-> fetched,
           assignments |->
             IF failed \/ key = "" THEN <<>>
             ELSE <<Assignment(<<key>>, FullWeight * Den)>>]

\* The assignments classifyStock computes for one taxonomy: whether a request
\* was made, and the list (empty when the iteration ends with `continue`).
StockAssignments(stockConfig, response) ==
  IF stockConfig.isSingleValue /\ stockConfig.hasValue
  THEN [fetched |-> FALSE,
        assignments |-> <<Assignment(stockConfig.value, FullWeight * Den)>>]
  ELSE IF ~stockConfig.sourcePath
  THEN [fetched |-> FALSE, assignments |-> <<>>]
  ELSE LET remote == stockConfig.salEndpoint \/ stockConfig.viewId
           fetched == IF stockConfig.salEndpoint THEN securityInfo.secid
                      ELSE stockConfig.viewId
           failed == \/ stockConfig.salEndpoint /\ ~securityInfo.secid
                     \/ remote /\ ~response.ok
           key == IF remote THEN response.key
                  ELSE data.fields[TaxOrder[taxIdx]]
           mapping == getMapping(stockConfig.mapping)
       IN [fetched |-> fetched,
           assignments |->
             IF failed \/ key = "" THEN <<>>
             ELSE IF DOMAIN mapping = {}
             THEN <<Assignment(<<key>>, FullWeight * Den)>>
             ELSE IF key \in DOMAIN mapping /\ ~mapping[key].null
             THEN <<Assignment(mapping[key].path, FullWeight * Den)>>
             ELSE <<>>]

\* The loop of classifyStock handing each taxonomy to the store as soon as
\* it is computed.
classifyStockTaxonomyWritingAtOnce ==
  /\ pc = "stock_loop"
  /\ taxIdx <= Len(TaxOrder)
  /\ LET taxonomyId == TaxOrder[taxIdx]
         taxConfig == taxonomiesConfig[taxonomyId]
     IN IF IsSkipped(taxonomyId) \/ ~taxConfig.stockConfig.defined
        THEN UNCHANGED <<fetches, securityResults, objs, arrays, storeCalls>>
        ELSE \E response \in LookupResponses :
               LET r == StockAssignments(taxConfig.stockConfig, response)
               IN /\ fetches' = IF r.fetched THEN fetches + 1 ELSE fetches
                  /\ IF Len(r.assignments) > 0
                     THEN /\ securityResults' =
                               MapSet(securityResults, taxonomyId, Len(objs) + 1)
                          /\ objs' = Append(objs, [taxonomyId |-> taxonomyId,
                                                   assignments |-> Len(arrays) + 1])
                          /\ arrays' = Append(arrays, r.assignments)
                          /\ storeCalls' =
                               IF taxConfig.active
                               THEN Append(storeCalls,
                                      [taxonomyId |-> taxonomyId,
                                       assignments |-> r.assignments])
                               ELSE storeCalls
                     ELSE UNCHANGED <<securityResults, objs, arrays, storeCalls>>
  /\ taxIdx' = taxIdx + 1
  /\ UNCHANGED <<pc, normVars, batchVars, storeVars, assignVars, embeddedTaxonomiesConfig, results, cfgIdx, log,
                 security, taxonomiesConfig, securityInfo, data, writeIdx,
                 sourceDataOf>>

\* One iteration of the loop of classifyStock over taxonomiesConfig.
classifyStockTaxonomy ==
  /\ pc = "stock_loop"
  /\ taxIdx <= Len(TaxOrder)
  /\ LET taxonomyId == TaxOrder[taxIdx]
         taxConfig == taxonomiesConfig[taxonomyId]
     IN IF IsSkipped(taxonomyId) \/ ~taxConfig.stockConfig.defined
        THEN UNCHANGED <<fetches, securityResults, objs, arrays>>
        ELSE \E response \in LookupResponses :
               LET r == StockAssignments(taxConfig.stockConfig, response)
               IN /\ fetches' = IF r.fetched THEN fetches + 1 ELSE fetches
                  /\ IF Len(r.assignments) > 0
                     THEN /\ securityResults' =
                               MapSet(securityResults, taxonomyId, Len(objs) + 1)
                          /\ objs' = Append(objs, [taxonomyId |-> taxonomyId,
                                                   assignments |-> Len(arrays) + 1])
                          /\ arrays' = Append(arrays, r.assignments)
                     ELSE UNCHANGED <<securityResults, objs, arrays>>
  /\ taxIdx' = taxIdx + 1
  /\ UNCHANGED <<pc, normVars, batchVars, storeVars, assignVars, embeddedTaxonomiesConfig, results, cfgIdx, log,
                 security, taxonomiesConfig, securityInfo, data, writeIdx,
                 storeCalls, sourceDataOf>>

\* const embeddedResults = this.applyEmbeddedTaxonomies(securityResults)
CallEmbedded ==
  /\ pc \in {"fund_loop", "stock_loop"}
  /\ taxIdx > Len(TaxOrder)
  /\ pc' = "embed_clone"
  /\ UNCHANGED <<normVars, batchVars, storeVars, assignVars, embedVars, classifyVars>>

\* One iteration of the loop of classifyFund over embeddedResults.entries().
FundUpdate ==
  /\ pc = "embedded"
  /\ securityInfo.type = "Fund"
  /\ writeIdx <= Len(MapKeys(results))
  /\ LET taxonomyId == MapKeys(results)[writeIdx]
         normalized ==
           normalizeBreakdown(AssignmentsOf(results, objs, arrays, taxonomyId))
     IN IF taxonomiesConfig[taxonomyId].active
        THEN /\ objs' = [objs EXCEPT ![results[taxonomyId]].assignments =
                                       Len(arrays) + 1]
             /\ arrays' = Append(arrays, normalized)
             /\ storeCalls' = Append(storeCalls,
                  [taxonomyId |-> taxonomyId, assignments |-> normalized])
        ELSE UNCHANGED <<objs, arrays, storeCalls>>
  /\ writeIdx' = writeIdx + 1
  /\ UNCHANGED <<pc, normVars, batchVars, storeVars, assignVars, embeddedTaxonomiesConfig, securityResults,
                 results, cfgIdx, log, security, taxonomiesConfig,
                 securityInfo, data, taxIdx, fetches, sourceDataOf>>

\* One iteration of the loop of classifyStock over embeddedResults.entries().
StockUpdate ==
  /\ pc = "embedded"
  /\ securityInfo.type = "Stock"
  /\ writeIdx <= Len(MapKeys(results))
  /\ LET taxonomyId == MapKeys(results)[writeIdx]
     IN IF taxonomiesConfig[taxonomyId].active
        THEN storeCalls' = Append(storeCalls,
               [taxonomyId |-> taxonomyId,
                assignments |-> AssignmentsOf(results, objs, arrays, taxonomyId)])
        ELSE UNCHANGED storeCalls
  /\ writeIdx' = writeIdx + 1
  /\ UNCHANGED <<pc, normVars, batchVars, storeVars, assignVars, embedVars, security, taxonomiesConfig,
                 securityInfo, data, taxIdx, fetches, sourceDataOf>>

\* classifyFund or classifyStock returns.
ClassifyReturn ==
  /\ pc = "embedded"
  /\ writeIdx > Len(MapKeys(results))
  /\ pc' = "done"
  /\ UNCHANGED <<normVars, batchVars, storeVars, assignVars, embedVars, classifyVars>>

\* The security is at a request to the provider: the first request of
\* classifySecurity, the view request of classifyFund for the current
\* taxonomy, or the SAL or view request of classifyStock.
AtProviderCall ==
  \/ /\ pc = "start"
     /\ security.isin \/ security.isinOverride
     /\ security.ignoreTaxonomies.kind # "all"
  \/ /\ pc = "fund_loop"
     /\ taxIdx <= Len(TaxOrder)
     /\ ~IsSkipped(TaxOrder[taxIdx])
     /\ taxonomiesConfig[TaxOrder[taxIdx]].viewId
  \/ /\ pc = "stock_loop"
     /\ taxIdx <= Len(TaxOrder)
     /\ ~IsSkipped(TaxOrder[taxIdx])
     /\ taxonomiesConfig[TaxOrder[taxIdx]].stockConfig.defined
     /\ \E response \in LookupResponses :
          StockAssignments(taxonomiesConfig[TaxOrder[taxIdx]].stockConfig,
                           response).fetched

\* getBearerToken rethrows inside a request to the provider: the error
\* leaves classifySecurity.
ProviderThrows ==
  /\ AtProviderCall
  /\ pc' = "threw"
  /\ fetches' = fetches + 1
  /\ UNCHANGED <<normVars, batchVars, storeVars, assignVars, embedVars, security,
                 taxonomiesConfig, securityInfo, data, taxIdx, writeIdx,
                 storeCalls, sourceDataOf>>

(***************************************************************************)
(* Spec: one security through classifySecurity.                            *)
(***************************************************************************)

\* Securities of the document, as getSecurities reads them.
Securities ==
  { PPSecurity(TRUE, FALSE, IgnoreNone),
    PPSecurity(FALSE, TRUE, IgnoreNone),
    PPSecurity(FALSE, FALSE, IgnoreNone),
    PPSecurity(TRUE, FALSE, IgnoreAll),
    PPSecurity(TRUE, FALSE, IgnoreList({"stock_style"})),
    PPSecurity(TRUE, FALSE, IgnoreList({"bond_sector", "asset_type"})),
    PPSecurity(TRUE, FALSE, IgnoreList({"bond_sector"})) }

\* config.get("taxonomies") with the three taxonomies active or not.
Taxonomies(asset, style, sector) ==
  [t \in TaxIds |->
     CASE t = "asset_type" ->
            TaxonomyConfig(asset, FALSE, FALSE, FALSE, MappingKey("AssetTypeMap"),
                           StaticStockConfig(<<"Stock">>))
       [] t = "stock_style" ->
            TaxonomyConfig(style, TRUE, TRUE, FALSE, NoMapping,
                           FieldStockConfig(TRUE, FALSE, NoMapping))
       [] t = "bond_sector" ->
            TaxonomyConfig(sector, FALSE, FALSE, TRUE,
                           MappingTable(("10" :> Target(<<"Gov">>)) @@
                                        ("20" :> Target(<<"Corp">>))),
                           FieldStockConfig(FALSE, FALSE, MappingKey("SectorMap")))]

\* The configurations of the taxonomies the model runs under.
TaxonomyConfigs ==
  { Taxonomies(TRUE, TRUE, TRUE),
    Taxonomies(TRUE, FALSE, FALSE),
    Taxonomies(FALSE, TRUE, TRUE),
    [Taxonomies(TRUE, TRUE, TRUE) EXCEPT
       !["bond_sector"].stockConfig = NoStockConfig,
       !["stock_style"].stockConfig =
          FieldStockConfig(FALSE, TRUE,
            MappingTable(("Growth" :> Target(<<"Large", "Growth">>)) @@
                         ("Blend" :> NullTarget))),
       !["stock_style"].viewId = FALSE,
       !["stock_style"].multigroup = TRUE,
       !["asset_type"].mapping = MappingKey("Missing")] }

\* The values of config.get("embeddedTaxonomies") the model runs under.
EmbeddedConfigs ==
  { <<>>,
    <<EmbeddedTaxonomyConfig(TRUE, "asset_type", "Stock", "stock_style", "asset_type")>>,
    <<EmbeddedTaxonomyConfig(TRUE, "asset_type", "Stock", "stock_style", "asset_type"),
      EmbeddedTaxonomyConfig(TRUE, "asset_type", "Bond", "bond_sector", "asset_type")>>,
    <<EmbeddedTaxonomyConfig(TRUE, "asset_type", "Stock", "stock_style", "stock_style")>>,
    <<EmbeddedTaxonomyConfig(TRUE, "asset_type", "Stock", "stock_style", "bond_sector")>>,
    <<EmbeddedTaxonomyConfig(FALSE, "asset_type", "Stock", "stock_style", "asset_type")>> }

Init ==
  /\ pc = "start"
  /\ normIn = <<>>
  /\ normOut = <<>>
  /\ AssignIdle
  /\ BatchIdle
  /\ StoreIdle
  /\ embeddedTaxonomiesConfig \in EmbeddedConfigs
  /\ securityResults = <<>>
  /\ results = <<>>
  /\ objs = <<>>
  /\ arrays = <<>>
  /\ cfgIdx = 0
  /\ log = <<>>
  /\ security \in Securities
  /\ taxonomiesConfig \in TaxonomyConfigs
  /\ securityInfo = NoSecurityInfo
  /\ data = NoData
  /\ taxIdx = 0
  /\ writeIdx = 1
  /\ storeCalls = <<>>
  /\ fetches = 0
  /\ sourceDataOf = <<>>

Next ==
  \/ classifySecurity
  \/ classifyFundTaxonomy
  \/ classifyStockTaxonomy
  \/ CallEmbedded
  \/ EmbedClone
  \/ EmbedConfig
  \/ EmbedReturn
  \/ FundUpdate
  \/ StockUpdate
  \/ ClassifyReturn
  \/ ProviderThrows

Spec == Init /\ [][Next]_vars

(***************************************************************************)
(* Claims about the orchestration, checked under Spec.                     *)
(***************************************************************************)

\* C2: every assignment list handed to updateSecurityAssignments, for a fund
\* or for a stock and whatever embedding configs are active, has a total
\* weight of at most 10000.
C2_StoreTotalWithinFull ==
  \A i \in 1..Len(storeCalls) :
    SumWeights(storeCalls[i].assignments) <= FullWeight * Den

\* The child taxonomy of config c has no data: it has no result in the Map,
\* or its result holds no assignment.
ChildHasNoData(c) ==
  \/ c.childTaxonomy \notin DOMAIN results
  \/ ResultsView[c.childTaxonomy] = <<>>

\* A step of the program, as claim C17 describes it.
ChildWithoutDataStep ==
  ( /\ AtConfig
    /\ CurrentConfig.active
    /\ CurrentConfig.targetTaxonomy \in DOMAIN results
    /\ ChildHasNoData(CurrentConfig) )
  => ResultsView'[CurrentConfig.targetTaxonomy]
       = ResultsView[CurrentConfig.targetTaxonomy]

\* C17: when the child taxonomy of an active embedding config has no data
\* for the security (no result, or a result without assignments), processing
\* the config leaves the target as it was, its [parentCategory] entry
\* included.
C17_ChildWithoutDataKeepsParent == [][ChildWithoutDataStep]_vars

\* The taxonomies that are the child of an active embedding config.
ChildTaxonomies ==
  { embeddedTaxonomiesConfig[i].childTaxonomy :
      i \in { j \in 1..Len(embeddedTaxonomiesConfig) :
                embeddedTaxonomiesConfig[j].active } }

\* The taxonomies that are the target of an active embedding config.
TargetTaxonomies ==
  { embeddedTaxonomiesConfig[i].targetTaxonomy :
      i \in { j \in 1..Len(embeddedTaxonomiesConfig) :
                embeddedTaxonomiesConfig[j].active } }

\* While applyEmbeddedTaxonomies runs and when it returns, the taxonomies
\* of the set S have the assignments the caller handed over.
UnchangedByEmbedding(S) ==
  pc = "embed_loop" =>
    \A t \in S \cap DOMAIN results : ResultsView[t] = CallerView[t]

\* Every store write for a taxonomy of the set S carries the standalone
\* breakdown of that taxonomy, normalized when the security is a fund.
WrittenStandalone(S) ==
  \A i \in 1..Len(storeCalls) :
    storeCalls[i].taxonomyId \in S =>
      storeCalls[i].assignments =
        IF securityInfo.type = "Fund"
        THEN normalizeBreakdown(CallerView[storeCalls[i].taxonomyId])
        ELSE CallerView[storeCalls[i].taxonomyId]

IgnoreSet ==
  IF security.ignoreTaxonomies.kind = "list"
  THEN security.ignoreTaxonomies.list ELSE {}

\* Config c has its parent, its child or its target among the taxonomies S.
Touches(c, S) ==
  \/ c.parentTaxonomy \in S
  \/ c.childTaxonomy \in S
  \/ c.targetTaxonomy \in S

\* C20: a security flagged ignore-all causes no request to the provider and
\* no store write; for a security flagged with a set S of taxonomy ids no
\* store write names a taxonomy of S, no taxonomy of S ever has a result
\* that data could be derived from, and every active embedding config whose
\* parent, child or target is in S is skipped for missing taxonomy data.
C20_IgnoreDirective ==
  /\ security.ignoreTaxonomies.kind = "all" =>
       /\ fetches = 0
       /\ storeCalls = <<>>
       /\ securityResults = <<>>
       /\ results = <<>>
  /\ security.ignoreTaxonomies.kind = "list" =>
       /\ \A i \in 1..Len(storeCalls) : storeCalls[i].taxonomyId \notin IgnoreSet
       /\ DOMAIN securityResults \cap IgnoreSet = {}
       /\ DOMAIN results \cap IgnoreSet = {}
       /\ \A k \in 1..Len(log) :
            Touches(embeddedTaxonomiesConfig[log[k].config], IgnoreSet) =>
              log[k].message = "missing taxonomy data"
       /\ \A i \in 1..Len(embeddedTaxonomiesConfig) :
            ( /\ pc = "embedded"
              /\ embeddedTaxonomiesConfig[i].active
              /\ Touches(embeddedTaxonomiesConfig[i], IgnoreSet) )
            => \E k \in 1..Len(log) :
                 /\ log[k].config = i
                 /\ log[k].message = "missing taxonomy data"

\* C20 witness: a fund with data for bond_sector, which is active, ignored
\* and the target of an active config; the config was skipped and the other
\* taxonomies were written.
C20_Witness ==
  /\ pc = "done"
  /\ security.ignoreTaxonomies = IgnoreList({"bond_sector"})
  /\ securityInfo.type = "Fund"
  /\ taxonomiesConfig["bond_sector"].active
  /\ data.breakdowns["bond_sector"].kind = "array"
  /\ Len(embeddedTaxonomiesConfig) = 1
  /\ embeddedTaxonomiesConfig[1].active
  /\ embeddedTaxonomiesConfig[1].targetTaxonomy = "bond_sector"
  /\ log = <<[config |-> 1, message |-> "missing taxonomy data"]>>
  /\ {storeCalls[i].taxonomyId : i \in 1..Len(storeCalls)} =
       {"asset_type", "stock_style"}

\* Taxonomy t is to be computed for the security: it is active, or the
\* parent or the child of an active embedding config, and it is not ignored.
ToCompute(t) ==
  /\ \/ taxonomiesConfig[t].active
     \/ \E i \in 1..Len(embeddedTaxonomiesConfig) :
          /\ embeddedTaxonomiesConfig[i].active
          /\ t \in {embeddedTaxonomiesConfig[i].parentTaxonomy,
                    embeddedTaxonomiesConfig[i].childTaxonomy}
  /\ security.ignoreTaxonomies.kind # "all"
  /\ t \notin IgnoreSet

\* The sourceData extracted for taxonomy t holds groups that pass its filter.
HasGroups(t) ==
  /\ sourceDataOf[t].kind = "array"
  /\ Len(filteredData(taxonomiesConfig[t], sourceDataOf[t])) > 0

\* The taxonomies the loop of classifyFund or classifyStock has passed.
Passed == { TaxOrder[i] : i \in 1..(IF taxIdx > Len(TaxOrder) THEN Len(TaxOrder)
                                    ELSE taxIdx - 1) }

\* C21: a taxonomy gets a result only when it is to be computed; for a fund
\* the taxonomies computed so far are exactly those to be computed, and
\* each of them whose payload holds groups has a result;
\* the store is written only for taxonomies that are active, so a taxonomy
\* computed only as the input of an embedding is never written.
C21_ComputedAndWritten ==
  /\ \A t \in DOMAIN securityResults : ToCompute(t)
  /\ \A t \in DOMAIN results : ToCompute(t)
  /\ pc \in {"fund_loop", "embed_clone", "embed_loop", "embedded", "done"}
       /\ securityInfo.type = "Fund" =>
       /\ DOMAIN sourceDataOf = { t \in Passed : ToCompute(t) }
       /\ \A t \in Passed :
            t \in DOMAIN securityResults <=> ToCompute(t) /\ HasGroups(t)
  /\ \A i \in 1..Len(storeCalls) :
       /\ taxonomiesConfig[storeCalls[i].taxonomyId].active
       /\ ToCompute(storeCalls[i].taxonomyId)

\* C21 witness: a fund whose stock_style is inactive and computed as the
\* child of an active config; asset_type was written with the nested
\* entries and stock_style was not written.
C21_Witness ==
  /\ pc = "done"
  /\ securityInfo.type = "Fund"
  /\ ~taxonomiesConfig["stock_style"].active
  /\ "stock_style" \in DOMAIN results
  /\ log # <<>>
  /\ log[1].message = "created subcategories"
  /\ \E i \in 1..Len(storeCalls) :
       /\ storeCalls[i].taxonomyId = "asset_type"
       /\ \E k \in 1..Len(storeCalls[i].assignments) :
            Len(storeCalls[i].assignments[k].path) = 2
  /\ \A i \in 1..Len(storeCalls) : storeCalls[i].taxonomyId # "stock_style"

\* The current taxonomy of the loop of classifyStock and its stockConfig.
StockTaxonomy == TaxOrder[taxIdx]

CurrentStockConfig == taxonomiesConfig[StockTaxonomy].stockConfig

\* The value classifyStock reads for the current taxonomy under `response`.
StockKey(response) ==
  IF CurrentStockConfig.salEndpoint \/ CurrentStockConfig.viewId
  THEN response.key ELSE data.fields[StockTaxonomy]

\* The current taxonomy contributes nothing under `response`: it is the
\* case of a missing secid, a null payload, an absent field, or a value
\* that the mapping does not hold or maps to null.
ContributesNothing(response) ==
  \/ ~CurrentStockConfig.isSingleValue /\ ~CurrentStockConfig.sourcePath
  \/ /\ ~CurrentStockConfig.isSingleValue
     /\ \/ CurrentStockConfig.salEndpoint /\ ~securityInfo.secid
        \/ (CurrentStockConfig.salEndpoint \/ CurrentStockConfig.viewId)
             /\ ~response.ok
        \/ StockKey(response) = ""
        \/ LET mapping == getMapping(CurrentStockConfig.mapping)
           IN /\ DOMAIN mapping # {}
              /\ \/ StockKey(response) \notin DOMAIN mapping
                 \/ mapping[StockKey(response)].null

\* C24: for a stock every result before embedding holds exactly one
\* assignment of weight 10000; a taxonomy without stockConfig has no result;
\* whatever the provider answers for the current taxonomy, a missing secid,
\* a null payload, an absent field or an unmapped value yields no assignment
\* and anything else yields one; and the loop runs to the last taxonomy.
C24_StockMode ==
  securityInfo.type = "Stock" =>
    /\ \A t \in DOMAIN securityResults :
         /\ Len(CallerView[t]) = 1
         /\ CallerView[t][1].weight = FullWeight * Den
         /\ taxonomiesConfig[t].stockConfig.defined
    /\ pc = "stock_loop" /\ taxIdx <= Len(TaxOrder) =>
         \A response \in LookupResponses :
           LET r == StockAssignments(CurrentStockConfig, response)
           IN /\ Len(r.assignments) <= 1
              /\ r.assignments = <<>> <=> ContributesNothing(response)
    /\ pc \in {"embed_clone", "embed_loop", "embedded"} => taxIdx > Len(TaxOrder)
    /\ pc = "done" /\ (securityInfo.secid \/ securityInfo.data.present) =>
         taxIdx > Len(TaxOrder)

\* C24 witness: a stock without secid whose stock_style needs the SAL
\* endpoint and so has no result, while asset_type before it and bond_sector
\* after it each hold one assignment.
C24_Witness ==
  /\ pc = "done"
  /\ securityInfo.type = "Stock"
  /\ ~securityInfo.secid
  /\ taxonomiesConfig["stock_style"].stockConfig.salEndpoint
  /\ ~IsSkipped("stock_style")
  /\ DOMAIN securityResults = {"asset_type", "bond_sector"}
  /\ CallerView["bond_sector"] = <<A1("Gov", FullWeight * Den)>>

\* The mapping table of taxonomy t.
TableOf(t) == getMapping(taxonomiesConfig[t].mapping)

\* The positions of the source array of t whose item passes the filter.
PassingGroups(t) ==
  { g \in 1..Len(sourceDataOf[t].groups) :
      taxonomiesConfig[t].filter => sourceDataOf[t].groups[g].matches }

\* The positions whose items the code processes: all passing ones for a
\* multigroup taxonomy, else the first.
ContributingGroups(t) ==
  IF taxonomiesConfig[t].multigroup \/ PassingGroups(t) = {}
  THEN PassingGroups(t)
  ELSE { CHOOSE g \in PassingGroups(t) : \A h \in PassingGroups(t) : g <= h }

\* The leaves of a source item: its nested items, or the item itself.
LeavesOf(group) ==
  IF group.hasBreakdownValues THEN group.BreakdownValues
  ELSE <<Item(group.key, group.value)>>

\* The Category Mapper yields a (path, weight) pair for the leaf.
LeafYields(t, item) ==
  /\ item.key # ""
  /\ item.value.kind = "number"
  /\ item.value.weight # 0
  /\ \/ DOMAIN TableOf(t) = {}
     \/ /\ item.key \in DOMAIN TableOf(t)
        /\ ~TableOf(t)[item.key].null
        /\ item.value.weight > 0

LeafPath(t, item) ==
  IF DOMAIN TableOf(t) = {} THEN <<item.key>> ELSE TableOf(t)[item.key].path

RECURSIVE SumLeaves(_, _)
\* Sum of the weights the mapper yields for a sequence of leaves.
SumLeaves(t, leaves) ==
  IF leaves = <<>> THEN 0
  ELSE (IF LeafYields(t, Head(leaves)) THEN Head(leaves).value.weight ELSE 0)
       + SumLeaves(t, Tail(leaves))

RECURSIVE SumGroups(_, _)
\* Sum of the weights the mapper yields for the leaves of the groups at G.
SumGroups(t, G) ==
  IF G = {} THEN 0
  ELSE LET g == CHOOSE h \in G : TRUE
       IN SumLeaves(t, LeavesOf(sourceDataOf[t].groups[g]))
          + SumGroups(t, G \ {g})

\* The result of t holds what the mapper yields for the leaves of the
\* groups at G: the path of every such leaf, and their weights in total.
HoldsLeavesOf(t, G) ==
  /\ SumWeights(CallerView[t]) = SumGroups(t, G)
  /\ \A g \in G :
       LET leaves == LeavesOf(sourceDataOf[t].groups[g])
       IN \A i \in 1..Len(leaves) :
            LeafYields(t, leaves[i]) =>
              \E k \in 1..Len(CallerView[t]) :
                CallerView[t][k].path = LeafPath(t, leaves[i])

\* C25 as stated: for a fund, the result of a taxonomy holds the mapped
\* leaves of every item of the source array that passes the filter.
C25_EveryPassingItem_Original ==
  securityInfo.type = "Fund" =>
    \A t \in DOMAIN securityResults : HoldsLeavesOf(t, PassingGroups(t))

\* C25: for a fund, the result of a taxonomy holds the mapped leaves of
\* every item of the source array that passes the filter when the taxonomy
\* is multigroup, and of the first such item otherwise; an item with a
\* BreakdownValues array stands for its nested items, any other is a leaf.
C25_ContributingItems ==
  securityInfo.type = "Fund" =>
    \A t \in DOMAIN securityResults : HoldsLeavesOf(t, ContributingGroups(t))

\* C25 witness: bond_sector, multigroup, with a leaf item 10 -> Gov 6000 and
\* a group holding 10 -> Gov 1000 and 20 -> Corp 3000; asset_type, single,
\* with two passing groups of which the first was taken.
C25_Witness ==
  /\ pc = "done"
  /\ securityInfo.type = "Fund"
  /\ "bond_sector" \in DOMAIN securityResults
  /\ CallerView["bond_sector"] =
       <<A1("Gov", W(7000, 0)), A1("Corp", W(3000, 0))>>
  /\ "asset_type" \in DOMAIN securityResults
  /\ Len(sourceDataOf["asset_type"].groups) = 2
  /\ ~taxonomiesConfig["asset_type"].multigroup

\* What the assigner yields for taxonomy t on the primary payload, as
\* api.getSecurityData(id) returned it.
PrimaryGroups(t) ==
  IF securityInfo.data.breakdowns[t].kind = "array"
  THEN filteredData(taxonomiesConfig[t], securityInfo.data.breakdowns[t])
  ELSE <<>>

PrimaryResult(t) ==
  assignItems(taxonomiesConfig[t], itemsToProcess(PrimaryGroups(t)), <<>>)

\* C26: for a fund, a taxonomy that asks for no supplementary view has the
\* result the assigner yields on the primary payload, whatever taxonomies
\* were processed before it and whatever views they fetched.
C26_IndependentOfEarlierTaxonomies ==
  securityInfo.type = "Fund" =>
    \A t \in Passed :
      ToCompute(t) /\ ~taxonomiesConfig[t].viewId =>
        /\ t \in DOMAIN securityResults <=> Len(PrimaryGroups(t)) > 0
        /\ t \in DOMAIN securityResults => CallerView[t] = PrimaryResult(t)

\* Once the store has been written for the security, the taxonomies are all
\* computed, the embedding step has run and no request is made any more.
WritesDeferred ==
  storeCalls # <<>> =>
    /\ pc \in {"embedded", "done"}
    /\ taxIdx > Len(TaxOrder)
    /\ cfgIdx > Len(embeddedTaxonomiesConfig)
    /\ ~AtProviderCall

\* A step after the first write makes no request to the provider.
NoFetchAfterWrite == storeCalls # <<>> => fetches' = fetches

\* C27: no store write happens before every taxonomy has been fetched and
\* assigned and the embedding step has run, no request follows a write, and
\* when a request to the provider throws the store has not been written for
\* the security.
C27_WritesDeferred ==
  /\ [](WritesDeferred /\ (pc = "threw" => storeCalls = <<>>))
  /\ [][NoFetchAfterWrite]_vars

\* C27 witness: a fund for which the first taxonomies were computed, with a
\* result held for asset_type, when the view request of a later taxonomy
\* threw; nothing was written.
C27_Witness ==
  /\ pc = "threw"
  /\ securityInfo.type = "Fund"
  /\ "asset_type" \in DOMAIN securityResults
  /\ taxonomiesConfig["asset_type"].active
  /\ taxIdx = 2
  /\ storeCalls = <<>>

(***************************************************************************)
(* SpecAssign: assignItems as a pure function of a list of raw items and   *)
(* a mapping.                                                              *)
(***************************************************************************)

\* Raw items of a breakdown: keys of the registry table that share a path,
\* a key with a list-valued entry, a null entry, a key no table holds, a
\* missing key; values positive, zero, negative, fractional, not a number
\* and missing.
RawItems ==
  { Item("1", Number(W(3000, 0))),
    Item("11", Number(W(5000, 0))),
    Item("1", Number(W(-500, 0))),
    Item("11", Number(0)),
    Item("5", Number(W(3000, 0))),
    Item("5", Number(W(12, 1))),
    Item("99", Number(W(5000, 0))),
    Item("42", Number(W(3000, 0))),
    Item("42", Number(W(-500, 0))),
    Item("", Number(W(3000, 0))),
    Item("1", Text),
    Item("1", Undefined) }

\* Values of taxConfig.mapping: none, a registry name, a name the registry
\* does not hold, and a table written in place.
RawMappings ==
  { NoMapping,
    MappingKey("AssetTypeMap"),
    MappingKey("Missing"),
    MappingTable(("1" :> Target(<<"Stock">>)) @@ ("42" :> Target(<<"Stock">>)) @@
                 ("11" :> Target(<<"Stock", "US">>)) @@ ("5" :> NullTarget)) }

InitAssign ==
  /\ pc = "items"
  /\ normIn = <<>>
  /\ normOut = <<>>
  /\ rawItems = <<>>
  /\ rawMapping \in RawMappings
  /\ assigned = <<>>
  /\ BatchIdle
  /\ StoreIdle
  /\ EmbedIdle
  /\ ClassifyIdle

AssignPush ==
  /\ pc = "items"
  /\ Len(rawItems) < MaxItems
  /\ \E item \in RawItems : rawItems' = Append(rawItems, item)
  /\ UNCHANGED <<pc, normVars, batchVars, storeVars, rawMapping, assigned, embedVars, classifyVars>>

AssignCall ==
  /\ pc = "items"
  /\ assigned' = assignItems(TaxonomyConfig(TRUE, FALSE, FALSE, FALSE, rawMapping,
                                            NoStockConfig),
                             rawItems, <<>>)
  /\ pc' = "assigned"
  /\ UNCHANGED <<normVars, batchVars, storeVars, rawItems, rawMapping, embedVars, classifyVars>>

NextAssign == AssignPush \/ AssignCall

SpecAssign == InitAssign /\ [][NextAssign]_vars

(***************************************************************************)
(* Claims about the Taxonomy Assigner, checked under SpecAssign.           *)
(***************************************************************************)

\* The mapping table in force for the call.
RawTable == getMapping(rawMapping)

\* Raw item i yields a (path, weight) pair: it has a key and a value that is
\* a number other than 0, and its key resolves (to itself under the empty
\* table, else to a non-null entry, with a weight above 0).
ItemYields(i) ==
  LET item == rawItems[i]
  IN /\ item.key # ""
     /\ item.value.kind = "number"
     /\ item.value.weight # 0
     /\ \/ DOMAIN RawTable = {}
        \/ /\ item.key \in DOMAIN RawTable
           /\ ~RawTable[item.key].null
           /\ item.value.weight > 0

\* The path the key of raw item i resolves to.
ItemPath(i) ==
  IF DOMAIN RawTable = {} THEN <<rawItems[i].key>>
  ELSE RawTable[rawItems[i].key].path

\* The raw items whose key resolves to path p.
Contributors(p) == { i \in 1..Len(rawItems) : ItemYields(i) /\ ItemPath(i) = p }

RECURSIVE SumMapped(_)
\* Sum of the mapped weights of the raw items at the positions S.
SumMapped(S) ==
  IF S = {} THEN 0
  ELSE LET i == CHOOSE k \in S : TRUE
       IN rawItems[i].value.weight + SumMapped(S \ {i})

\* Positions of the result that hold path p.
EntriesOf(p) == { k \in 1..Len(assigned) : assigned[k].path = p }

RECURSIVE SumAssigned(_)
SumAssigned(S) ==
  IF S = {} THEN 0
  ELSE LET k == CHOOSE j \in S : TRUE
       IN assigned[k].weight + SumAssigned(S \ {k})

\* C11: in the result of the Taxonomy Assigner, the weight of every path p
\* is the sum of the mapped weights of all raw items whose key resolves to
\* p, p is present when some item resolves to it, and no other path is.
C11_AccumulatedWeights ==
  pc = "assigned" =>
    /\ \A i \in 1..Len(rawItems) :
         ItemYields(i) =>
           /\ EntriesOf(ItemPath(i)) # {}
           /\ SumAssigned(EntriesOf(ItemPath(i))) = SumMapped(Contributors(ItemPath(i)))
    /\ \A k \in 1..Len(assigned) : Contributors(assigned[k].path) # {}

\* C11 witness: keys "1" and "11", both mapped to Stock, with 3000 and 5000
\* and another path pushed between them, give one entry Stock 8000.
C11_Witness ==
  /\ pc = "assigned"
  /\ rawMapping = MappingKey("AssetTypeMap")
  /\ rawItems = <<Item("1", Number(W(3000, 0))), Item("5", Number(W(3000, 0))),
                  Item("11", Number(W(5000, 0)))>>
  /\ assigned = <<Assignment(<<"Stock">>, W(8000, 0)),
                  Assignment(<<"Stock", "US">>, W(3000, 0))>>

\* C12: the result of the Taxonomy Assigner never holds two assignments
\* with element-wise identical paths; an item that resolves to a path the
\* result already holds is merged into that entry.
C12_AssignerPathsUnique ==
  pc = "assigned" =>
    \A i, j \in 1..Len(assigned) :
      i # j => ~pathEquals(assigned[i].path, assigned[j].path)

\* C12 witness: under a table written in place, keys "1" and "42" both
\* resolve to Stock and end in one entry, next to the list-valued [Stock, US].
C12_Witness ==
  /\ pc = "assigned"
  /\ rawMapping.kind = "table"
  /\ rawItems = <<Item("1", Number(W(3000, 0))), Item("11", Number(W(5000, 0))),
                  Item("42", Number(W(3000, 0)))>>
  /\ assigned = <<Assignment(<<"Stock">>, W(6000, 0)),
                  Assignment(<<"Stock", "US">>, W(5000, 0))>>

\* The raw items whose value is a number above 0, in order.
PositiveItems ==
  SelectSeq(rawItems,
            LAMBDA item : item.value.kind = "number" /\ item.value.weight > 0)

\* C14: every assignment the Taxonomy Assigner returns has a weight above 0,
\* and the items whose value is zero or negative contribute nothing: the
\* result is the one the items with a positive value give on their own,
\* under the empty mapping table and under a keyed one.
C14_AssignedWeightsPositive ==
  pc = "assigned" =>
    /\ \A k \in 1..Len(assigned) : assigned[k].weight > 0
    /\ assigned = assignItems(TaxonomyConfig(TRUE, FALSE, FALSE, FALSE, rawMapping,
                                             NoStockConfig),
                              PositiveItems, <<>>)

\* The raw key k resolves under the table M: M is empty, or M holds k with
\* a value that is not null.
MapperResolves(M, k) ==
  \/ DOMAIN M = {}
  \/ k \in DOMAIN M /\ ~M[k].null

\* The path the raw key k resolves to under the table M: [k] when M is
\* empty, else the name or the list of names M holds for k.
MapperPath(M, k) == IF DOMAIN M = {} THEN <<k>> ELSE M[k].path

\* C15: a raw item with a key and a positive value puts the path its key
\* resolves to in the result ([k] under the empty table, the entry of k under
\* a non-empty one); a key the table does not hold or maps to null yields
\* nothing; and the result holds no path that is not the resolution of the
\* key of some raw item.
C15_MapperResolution ==
  pc = "assigned" =>
    /\ \A i \in 1..Len(rawItems) :
         ( /\ rawItems[i].key # ""
           /\ rawItems[i].value.kind = "number"
           /\ rawItems[i].value.weight > 0
           /\ MapperResolves(RawTable, rawItems[i].key) )
         => \E k \in 1..Len(assigned) :
              assigned[k].path = MapperPath(RawTable, rawItems[i].key)
    /\ \A k \in 1..Len(assigned) :
         \E i \in 1..Len(rawItems) :
           /\ rawItems[i].key # ""
           /\ MapperResolves(RawTable, rawItems[i].key)
           /\ assigned[k].path = MapperPath(RawTable, rawItems[i].key)

\* C15 witness: under the registry table, a key with a list-valued entry, a
\* key mapped to null and a key the table does not hold leave one path.
C15_Witness ==
  /\ pc = "assigned"
  /\ rawMapping = MappingKey("AssetTypeMap")
  /\ rawItems = <<Item("99", Number(W(5000, 0))), Item("5", Number(W(3000, 0))),
                  Item("42", Number(W(3000, 0)))>>
  /\ assigned = <<Assignment(<<"Stock", "US">>, W(3000, 0))>>

\* taxConfig.mapping is a name the registry of mapping tables does not hold.
MappingUnresolved ==
  /\ rawMapping.kind = "key"
  /\ rawMapping.key \notin DOMAIN globalMappings

\* C16: when the mapping of a taxonomy is a name that does not resolve in
\* the registry, every raw item is treated as unmapped and the Taxonomy
\* Assigner returns no assignment.
C16_UnresolvedMappingYieldsNothing ==
  (pc = "assigned" /\ MappingUnresolved) => assigned = <<>>

(***************************************************************************)
(* SpecBatch: the loop of main over the securities of the document.        *)
(* classifySecurity is a call that returns or throws.                      *)
(***************************************************************************)

\* A security of the document as main reads it: sec.isRetired, and whether
\* it has an isin and an isinOverride.
DocSecurity(retired, i, o) == [isRetired |-> retired, isin |-> i, isinOverride |-> o]

DocSecurities ==
  { DocSecurity(FALSE, TRUE, FALSE),
    DocSecurity(FALSE, FALSE, TRUE),
    DocSecurity(FALSE, FALSE, FALSE),
    DocSecurity(TRUE, TRUE, FALSE) }

\* How a call of classifier.classifySecurity ends.
Outcomes == {"returned", "threw"}

InitBatch ==
  /\ pc = "main_loop"
  /\ normIn = <<>>
  /\ normOut = <<>>
  /\ AssignIdle
  /\ EmbedIdle
  /\ ClassifyIdle
  /\ StoreIdle
  /\ securities \in UNION { [1..n -> DocSecurities] : n \in 0..MaxSecurities }
  /\ secIdx = 1
  /\ calls = <<>>
  /\ caught = <<>>
  /\ processedCount = 0
  /\ saves = 0
  /\ rejected = FALSE

\* One iteration of the loop without the try/catch around the call.
MainIterationWithoutCatch ==
  /\ pc = "main_loop"
  /\ secIdx <= Len(securities)
  /\ LET sec == securities[secIdx]
     IN IF sec.isRetired \/ (~sec.isin /\ ~sec.isinOverride)
        THEN /\ secIdx' = secIdx + 1
             /\ UNCHANGED <<pc, calls, caught, processedCount, rejected>>
        ELSE \E outcome \in Outcomes :
               /\ calls' = Append(calls, [index |-> secIdx, outcome |-> outcome])
               /\ IF outcome = "threw"
                  THEN /\ pc' = "exit"
                       /\ rejected' = TRUE
                       /\ UNCHANGED <<secIdx, caught, processedCount>>
                  ELSE /\ processedCount' = processedCount + 1
                       /\ secIdx' = secIdx + 1
                       /\ UNCHANGED <<pc, caught, rejected>>
  /\ UNCHANGED <<normVars, storeVars, assignVars, embedVars, classifyVars, securities, saves>>

\* One iteration of the loop of main over the securities.
MainIteration ==
  /\ pc = "main_loop"
  /\ secIdx <= Len(securities)
  /\ LET sec == securities[secIdx]
     IN IF sec.isRetired \/ (~sec.isin /\ ~sec.isinOverride)
        THEN UNCHANGED <<calls, caught, processedCount>>
        ELSE \E outcome \in Outcomes :
               /\ calls' = Append(calls, [index |-> secIdx, outcome |-> outcome])
               /\ caught' = IF outcome = "threw" THEN Append(caught, secIdx)
                            ELSE caught
               /\ processedCount' = processedCount + 1
  /\ secIdx' = secIdx + 1
  /\ UNCHANGED <<pc, normVars, storeVars, assignVars, embedVars, classifyVars, securities,
                 saves, rejected>>

\* xmlHandler.save(outputFile) after the loop.
MainSave ==
  /\ pc = "main_loop"
  /\ secIdx > Len(securities)
  /\ saves' = saves + 1
  /\ pc' = "exit"
  /\ UNCHANGED <<normVars, storeVars, assignVars, embedVars, classifyVars, securities,
                 secIdx, calls, caught, processedCount, rejected>>

NextBatch == MainIteration \/ MainSave

SpecBatch == InitBatch /\ [][NextBatch]_vars

(***************************************************************************)
(* Claims about the batch loop, checked under SpecBatch.                   *)
(***************************************************************************)

\* Security i is not retired and has an ISIN or an override.
Eligible(i) ==
  /\ ~securities[i].isRetired
  /\ securities[i].isin \/ securities[i].isinOverride

\* The eligible securities among the first n, in document order.
RECURSIVE EligibleUpTo(_)
EligibleUpTo(n) ==
  IF n = 0 THEN <<>>
  ELSE IF Eligible(n) THEN Append(EligibleUpTo(n - 1), n)
  ELSE EligibleUpTo(n - 1)

\* C19: whatever calls of classifySecurity threw, the securities classified
\* so far are all the non-retired securities with an ISIN or an override
\* among those the loop has passed, in document order; every error was
\* caught; and the document is saved once, after the last security.
C19_PartialFailureIsolation ==
  /\ ~rejected
  /\ secIdx <= Len(securities) + 1
  /\ Len(calls) = Len(EligibleUpTo(secIdx - 1))
  /\ \A k \in 1..Len(calls) : calls[k].index = EligibleUpTo(secIdx - 1)[k]
  /\ caught = SelectSeq(EligibleUpTo(secIdx - 1),
                        LAMBDA i : \E k \in 1..Len(calls) :
                                     calls[k].index = i /\ calls[k].outcome = "threw")
  /\ saves = IF pc = "exit" THEN 1 ELSE 0
  /\ pc = "exit" => secIdx = Len(securities) + 1

\* C19 witness: the first security threw, a retired one was passed over, the
\* third was classified, and the document was saved.
C19_Witness ==
  /\ pc = "exit"
  /\ saves = 1
  /\ Len(securities) = 3
  /\ securities[2].isRetired
  /\ calls = <<[index |-> 1, outcome |-> "threw"],
               [index |-> 3, outcome |-> "returned"]>>
  /\ caught = <<1>>

(***************************************************************************)
(* The document store: XMLHandler.updateSecurityAssignments on the parsed  *)
(* document.  The tree of a taxonomy is kept as a heap of nodes; the       *)
(* position of a node in the heap stands for its id.                       *)
(***************************************************************************)

\* Largest number of calls of updateSecurityAssignments in SpecStore.
MaxCalls == 2

\* A value of the parsed document: a string, or the number the parser made
\* of the text of a tag.
Str(t) == [type |-> "string", text |-> t]

Num(t) == [type |-> "number", text |-> t]

\* Texts of tags that the parser turns into numbers.
NumberTexts == {"10"}

\* XMLParser with the options of xml-helper.ts: the text of a tag that
\* reads as a number is parsed to a number, any other text stays a string.
parseTagValue(text) == IF text \in NumberTexts THEN Num(text) ELSE Str(text)

\* XMLBuilder: the text written for a value.
buildTagValue(value) == value.text

\* getSecurityReference(index, depth): "../" repeated 6 + depth * 2 times,
\* then securities/security for index 0 and securities/security[index + 1]
\* otherwise.
getSecurityReference(index, depth) ==
  [levelsUp |-> 6 + depth * 2, list |-> "securities", position |-> index + 1]

\* The reference of an assignment of an account.
AccountReference(position, depth) ==
  [levelsUp |-> 6 + depth * 2, list |-> "accounts", position |-> position]

\* An assignment element of a classification node.
XmlAssignment(ref, weight) == [investmentVehicle |-> ref, weight |-> weight]

\* A classification node: its name, the heap positions of its children in
\* document order, and its assignments.
Node(name, children, assignments) ==
  [name |-> name, children |-> children, assignments |-> assignments]

\* getSecurityIndex(uuid): findIndex over client.securities.security.
getSecurityIndex(doc, uuid) ==
  IF \E i \in 1..Len(doc.securities) : doc.securities[i] = uuid
  THEN (CHOOSE i \in 1..Len(doc.securities) :
          /\ doc.securities[i] = uuid
          /\ \A j \in 1..(i - 1) : doc.securities[j] # uuid) - 1
  ELSE -1

\* getTaxonomy(name): the first taxonomy with t.name === name, created with
\* an empty root when there is none.  Returns the document and the position
\* of the taxonomy.
getTaxonomy(doc, name) ==
  IF \E i \in 1..Len(doc.taxonomies) : doc.taxonomies[i].name = Str(name)
  THEN [doc |-> doc,
        tax |-> CHOOSE i \in 1..Len(doc.taxonomies) :
                  /\ doc.taxonomies[i].name = Str(name)
                  /\ \A j \in 1..(i - 1) : doc.taxonomies[j].name # Str(name)]
  ELSE [doc |-> [doc EXCEPT
                   !.taxonomies = Append(@, [name |-> Str(name),
                                             root |-> Len(doc.nodes) + 1]),
                   !.nodes = Append(@, Node(Str(name), <<>>, <<>>))],
        tax |-> Len(doc.taxonomies) + 1]

RECURSIVE Subtree(_, _, _)
\* The nodes removeRecursive visits from node `id` at `depth`, each with
\* the depth it is visited at.
Subtree(nodes, id, depth) ==
  {<<id, depth>>} \cup
  UNION { Subtree(nodes, nodes[id].children[k], depth + 1) :
            k \in 1..Len(nodes[id].children) }

\* The assignments of a node without those whose reference is `ref`.
WithoutReference(assignments, ref) ==
  SelectSeq(assignments, LAMBDA a : a.investmentVehicle # ref)

\* The filter of removeRecursive applied to the root only.
RemoveAtRootOnly(nodes, root, index) ==
  [nodes EXCEPT ![root].assignments =
     WithoutReference(@, getSecurityReference(index, 0))]

\* The filter of removeRecursive dropping every assignment of a node that
\* holds one of the security.
RemoveWholeNodes(nodes, root, index) ==
  LET visited == Subtree(nodes, root, 0)
  IN [n \in DOMAIN nodes |->
        IF \E v \in visited :
             /\ v[1] = n
             /\ \E k \in 1..Len(nodes[n].assignments) :
                  nodes[n].assignments[k].investmentVehicle =
                    getSecurityReference(index, v[2])
        THEN [nodes[n] EXCEPT !.assignments = <<>>]
        ELSE nodes[n]]

\* removeRecursive(tax.root, 0): every node of the tree loses the
\* assignments whose reference is that of the security at the node's depth.
RemoveRecursive(nodes, root, index) ==
  LET visited == Subtree(nodes, root, 0)
  IN [n \in DOMAIN nodes |->
        IF \E v \in visited : v[1] = n
        THEN LET depth == (CHOOSE v \in visited : v[1] = n)[2]
             IN [nodes[n] EXCEPT !.assignments =
                   WithoutReference(@, getSecurityReference(index, depth))]
        ELSE nodes[n]]

\* removeSecurityFromTaxonomy(taxonomyName, securityUuid)
removeSecurityFromTaxonomy(doc, taxonomyName, securityUuid) ==
  LET g == getTaxonomy(doc, taxonomyName)
      securityIndex == getSecurityIndex(g.doc, securityUuid)
  IN IF securityIndex = -1 THEN g.doc
     ELSE [g.doc EXCEPT !.nodes =
             RemoveRecursive(@, g.doc.taxonomies[g.tax].root, securityIndex)]

\* The first child of `current` with c.name === segment, or 0.
FindChild(nodes, current, segment) ==
  LET children == nodes[current].children
  IN IF \E k \in 1..Len(children) : nodes[children[k]].name = Str(segment)
     THEN children[CHOOSE k \in 1..Len(children) :
                     /\ nodes[children[k]].name = Str(segment)
                     /\ \A j \in 1..(k - 1) : nodes[children[j]].name # Str(segment)]
     ELSE 0

RECURSIVE ensureClassificationPath(_, _, _)
\* ensureClassificationPath(root, path): walks the path, pushing a new node
\* where no child has the name of the segment.
ensureClassificationPath(nodes, current, path) ==
  IF path = <<>> THEN [nodes |-> nodes, node |-> current]
  ELSE LET nextNode == FindChild(nodes, current, Head(path))
       IN IF nextNode # 0
          THEN ensureClassificationPath(nodes, nextNode, Tail(path))
          ELSE ensureClassificationPath(
                 Append([nodes EXCEPT ![current].children =
                                        Append(@, Len(nodes) + 1)],
                        Node(Str(Head(path)), <<>>, <<>>)),
                 Len(nodes) + 1, Tail(path))

\* assignSecurityToTaxonomy(taxonomyName, path, securityUuid, weight):
\* returns the document and whether the error was reported.
assignSecurityToTaxonomy(doc, taxonomyName, path, securityUuid, weight) ==
  LET g == getTaxonomy(doc, taxonomyName)
      securityIndex == getSecurityIndex(g.doc, securityUuid)
  IN IF securityIndex = -1 THEN [doc |-> g.doc, error |-> TRUE]
     ELSE LET e == ensureClassificationPath(g.doc.nodes,
                     g.doc.taxonomies[g.tax].root, path)
              securityRef == getSecurityReference(securityIndex, Len(path))
              existing == { k \in 1..Len(e.nodes[e.node].assignments) :
                              e.nodes[e.node].assignments[k].investmentVehicle
                                = securityRef }
              newAssignment == XmlAssignment(securityRef, MathRound(weight, Den))
          IN [doc |-> [g.doc EXCEPT !.nodes =
                         IF existing # {}
                         THEN [e.nodes EXCEPT ![e.node].assignments[
                                 CHOOSE k \in existing :
                                   \A j \in existing : k <= j] = newAssignment]
                         ELSE [e.nodes EXCEPT ![e.node].assignments =
                                 Append(@, newAssignment)]],
              error |-> FALSE]

RECURSIVE AssignAll(_, _, _, _)
\* The loop of updateSecurityAssignments over the assignments.
AssignAll(r, taxonomyName, securityUuid, assignments) ==
  IF assignments = <<>> THEN r
  ELSE LET a == assignSecurityToTaxonomy(r.doc, taxonomyName,
                  Head(assignments).path, securityUuid, Head(assignments).weight)
       IN AssignAll([doc |-> a.doc,
                     errors |-> r.errors + (IF a.error THEN 1 ELSE 0)],
                    taxonomyName, securityUuid, Tail(assignments))

\* updateSecurityAssignments without the test of an empty list.
updateSecurityAssignmentsAlwaysClearing(doc, taxonomyName, securityUuid, assignments) ==
  AssignAll([doc |-> removeSecurityFromTaxonomy(doc, taxonomyName, securityUuid),
             errors |-> 0],
            taxonomyName, securityUuid, assignments.list)

\* updateSecurityAssignments(taxonomyName, securityUuid, assignments):
\* returns the document and the number of errors reported.
updateSecurityAssignments(doc, taxonomyName, securityUuid, assignments) ==
  IF ~assignments.defined \/ assignments.list = <<>>
  THEN [doc |-> doc, errors |-> 0]
  ELSE AssignAll([doc |-> removeSecurityFromTaxonomy(doc, taxonomyName,
                                                     securityUuid),
                  errors |-> 0],
                 taxonomyName, securityUuid, assignments.list)

(***************************************************************************)
(* SpecStore: calls of updateSecurityAssignments on a loaded document,     *)
(* and the document saved and loaded again between two runs.               *)
(***************************************************************************)

\* What the parser yields for a document without taxonomies.
EmptyDocument ==
  [securities |-> <<"s1", "s2">>, taxonomies |-> <<>>, nodes |-> <<>>]

\* What the parser yields for a document with two taxonomies: Asset with
\* the categories Stock and Stock > US, Style with Growth; the securities
\* s1 and s2 and an account are assigned in Asset, s1 in Style.
ClassifiedDocument ==
  [securities |-> <<"s1", "s2">>,
   taxonomies |-> <<[name |-> parseTagValue("Asset"), root |-> 1],
                    [name |-> parseTagValue("Style"), root |-> 4]>>,
   nodes |->
     << Node(parseTagValue("Asset"), <<2>>,
             <<XmlAssignment(AccountReference(1, 0), 2000)>>),
        Node(parseTagValue("Stock"), <<3>>,
             <<XmlAssignment(getSecurityReference(0, 1), 6000),
               XmlAssignment(AccountReference(1, 1), 5000),
               XmlAssignment(getSecurityReference(1, 1), 10000)>>),
        Node(parseTagValue("US"), <<>>,
             <<XmlAssignment(getSecurityReference(0, 2), 4000)>>),
        Node(parseTagValue("Style"), <<5>>, <<>>),
        Node(parseTagValue("Growth"), <<>>,
             <<XmlAssignment(getSecurityReference(0, 1), 10000)>>) >>]

Documents == {EmptyDocument, ClassifiedDocument}

\* The `assignments` argument: missing, or a list.
MissingList == [defined |-> FALSE, list |-> <<>>]

List(l) == [defined |-> TRUE, list |-> l]

\* Assignment lists the classifier hands to the store.
UpdateLists ==
  { MissingList,
    List(<<>>),
    List(<<A1("Stock", W(10000, 0))>>),
    List(<<A1("Stock", W(6000, 1)),
           Assignment(<<"Stock", "US">>, W(3999, 2))>>),
    List(<<A1("Bond", W(5000, 0)), A1("10", W(5000, 0))>>),
    List(<<A1("Stock", W(6000, 0)), A1("Stock", W(4000, 0))>>),
    List(<<Assignment(<<"Stock", "US">>, W(10000, 0))>>) }

TaxonomyNames == {"Asset", "Style"}

\* Security ids handed to the store; s9 is not in the document.
SecurityUuids == {"s1", "s2", "s9"}

InitStore ==
  /\ pc = "store"
  /\ normIn = <<>>
  /\ normOut = <<>>
  /\ AssignIdle
  /\ BatchIdle
  /\ EmbedIdle
  /\ ClassifyIdle
  /\ xmlData \in Documents
  /\ updateCall = <<>>
  /\ updateCount = 0
  /\ xmlErrors = 0

\* A call of xmlHandler.updateSecurityAssignments.
UpdateSecurityAssignments ==
  /\ pc = "store"
  /\ updateCount < MaxCalls
  /\ \E taxonomyName \in TaxonomyNames, securityUuid \in SecurityUuids,
        assignments \in UpdateLists :
       LET r == updateSecurityAssignments(xmlData, taxonomyName, securityUuid,
                                          assignments)
       IN /\ xmlData' = r.doc
          /\ xmlErrors' = r.errors
          /\ updateCall' = [taxonomyName |-> taxonomyName,
                            securityUuid |-> securityUuid,
                            assignments |-> assignments]
  /\ updateCount' = updateCount + 1
  /\ UNCHANGED <<pc, normVars, batchVars, assignVars, embedVars, classifyVars>>

\* The document as the parser yields it after save and load: the text of
\* every name is written and parsed again.
Reloaded(doc) ==
  [doc EXCEPT
     !.taxonomies = [i \in DOMAIN @ |->
                       [@[i] EXCEPT !.name = parseTagValue(buildTagValue(@))]],
     !.nodes = [n \in DOMAIN @ |->
                  [@[n] EXCEPT !.name = parseTagValue(buildTagValue(@))]]]

\* xmlHandler.save at the end of a run and xmlHandler.load at the start of
\* the next one.
SaveAndLoad ==
  /\ pc = "store"
  /\ xmlData # Reloaded(xmlData)
  /\ xmlData' = Reloaded(xmlData)
  /\ UNCHANGED <<pc, normVars, batchVars, assignVars, embedVars, classifyVars,
                 updateCall, updateCount, xmlErrors>>

NextStore == UpdateSecurityAssignments \/ SaveAndLoad

SpecStore == InitStore /\ [][NextStore]_vars

(***************************************************************************)
(* Claims about the document store, checked under SpecStore.               *)
(***************************************************************************)

RECURSIVE NodePaths(_, _, _)
\* The nodes of the tree under `id`, each with the names on its path from
\* the root as the document writes them.
NodePaths(nodes, id, prefix) ==
  {<<id, prefix>>} \cup
  UNION { NodePaths(nodes, nodes[id].children[k],
                    Append(prefix, buildTagValue(nodes[nodes[id].children[k]].name))) :
            k \in 1..Len(nodes[id].children) }

\* The taxonomies of the document written with the name T.
TreesOf(doc, T) ==
  { i \in DOMAIN doc.taxonomies : buildTagValue(doc.taxonomies[i].name) = T }

\* The nodes of the taxonomies named T, with their paths.
NodesOf(doc, T) ==
  UNION { NodePaths(doc.nodes, doc.taxonomies[i].root, <<>>) : i \in TreesOf(doc, T) }

\* The assignments of the vehicle at position `position` of the list `list`
\* in the taxonomies named T: node, path, place among the assignments of the
\* node, and weight.
HeldBy(doc, T, list, position) ==
  UNION { { [node |-> np[1], path |-> np[2], place |-> k,
             weight |-> doc.nodes[np[1]].assignments[k].weight] :
              k \in { j \in 1..Len(doc.nodes[np[1]].assignments) :
                        LET ref == doc.nodes[np[1]].assignments[j].investmentVehicle
                        IN /\ ref.list = list
                           /\ ref.position = position
                           /\ ref.levelsUp = 6 + 2 * Len(np[2]) } } :
          np \in NodesOf(doc, T) }

\* The assignments of security `uuid` in the taxonomies named T.
Held(doc, T, uuid) ==
  HeldBy(doc, T, "securities", getSecurityIndex(doc, uuid) + 1)

\* The (path, weight) pairs of a set of assignments.
PathWeights(held) == { <<h.path, h.weight>> : h \in held }

\* The paths of the list are pairwise distinct.
DistinctPaths(l) ==
  \A i, j \in 1..Len(l) : l[i].path = l[j].path => i = j

\* The step is a call of updateSecurityAssignments.
IsUpdate == updateCount' = updateCount + 1

\* A call with a security of the document and a non-empty list L of
\* distinct paths leaves the security with exactly the assignments of L.
StoreReplacementStep ==
  ( /\ IsUpdate
    /\ getSecurityIndex(xmlData, updateCall'.securityUuid) # -1
    /\ updateCall'.assignments.defined
    /\ updateCall'.assignments.list # <<>>
    /\ DistinctPaths(updateCall'.assignments.list) )
  => LET L == updateCall'.assignments.list
         held == Held(xmlData', updateCall'.taxonomyName, updateCall'.securityUuid)
     IN /\ PathWeights(held) =
             { <<L[k].path, MathRound(L[k].weight, Den)>> : k \in 1..Len(L) }
        /\ Cardinality(held) = Len(L)
        /\ \A k \in 1..Len(L) :
             \E np \in NodesOf(xmlData', updateCall'.taxonomyName) :
               np[2] = L[k].path

\* C22: after updateSecurityAssignments(T, s, L) with s in the document and
\* L a non-empty list of distinct paths, the assignments of s in the tree of
\* T, at any depth, are exactly the paths of L with their rounded weights,
\* and every path of L is a category node.
C22_StoreReplacement == [][StoreReplacementStep]_vars

\* C22 witness: s1, held by Stock and by Stock > US, was given Stock 100%:
\* the assignment two levels down is gone and Stock holds 10000.
C22_Witness ==
  /\ updateCount = 1
  /\ updateCall = [taxonomyName |-> "Asset", securityUuid |-> "s1",
                   assignments |-> List(<<A1("Stock", W(10000, 0))>>)]
  /\ Len(xmlData.nodes) = 5
  /\ xmlData.nodes[3].name = Str("US")
  /\ xmlData.nodes[3].assignments = <<>>
  /\ PathWeights(Held(xmlData, "Asset", "s1")) = {<< <<"Stock">>, 10000 >>}

\* A call with an empty or a missing list leaves the document as it is.
EmptyListStep ==
  ( /\ IsUpdate
    /\ ~updateCall'.assignments.defined \/ updateCall'.assignments.list = <<>> )
  => /\ xmlData' = xmlData
     /\ xmlErrors' = 0

\* C23: updateSecurityAssignments with an empty or a missing list leaves
\* the document untouched: the assignments of the security in that taxonomy
\* are kept and no taxonomy or category node is created.
C23_EmptyListKeepsDocument == [][EmptyListStep]_vars

\* C23 witness: the classified document after a call for s1 in Style with
\* an empty list; s1 is still held by Growth.
C23_Witness ==
  /\ updateCount = 1
  /\ updateCall = [taxonomyName |-> "Style", securityUuid |-> "s1",
                   assignments |-> List(<<>>)]
  /\ xmlData = ClassifiedDocument
  /\ PathWeights(Held(xmlData, "Style", "s1")) = {<< <<"Growth">>, 10000 >>}

\* The assignments of a node other than those with reference `ref`, in order.
Others(doc, n, ref) == WithoutReference(doc.nodes[n].assignments, ref)

\* A call for taxonomy T and security s changes nothing else.
FrameStep ==
  IsUpdate =>
    LET T == updateCall'.taxonomyName
        index == getSecurityIndex(xmlData, updateCall'.securityUuid)
    IN /\ xmlData'.securities = xmlData.securities
       /\ \A i \in DOMAIN xmlData.taxonomies :
            /\ i \in DOMAIN xmlData'.taxonomies
            /\ xmlData'.taxonomies[i] = xmlData.taxonomies[i]
       /\ \A n \in DOMAIN xmlData.nodes :
            /\ n \in DOMAIN xmlData'.nodes
            /\ xmlData'.nodes[n].name = xmlData.nodes[n].name
            /\ Len(xmlData'.nodes[n].children) >= Len(xmlData.nodes[n].children)
            /\ SubSeq(xmlData'.nodes[n].children, 1,
                      Len(xmlData.nodes[n].children)) = xmlData.nodes[n].children
       /\ \A np \in NodesOf(xmlData, T) :
            Others(xmlData', np[1], getSecurityReference(index, Len(np[2])))
              = Others(xmlData, np[1], getSecurityReference(index, Len(np[2])))
       /\ \A n \in DOMAIN xmlData.nodes :
            (\A np \in NodesOf(xmlData, T) : np[1] # n) =>
              xmlData'.nodes[n] = xmlData.nodes[n]
       /\ \A u \in SecurityUuids \ {updateCall'.securityUuid} :
            { [node |-> h.node, path |-> h.path, weight |-> h.weight] :
                h \in Held(xmlData', T, u) }
            = { [node |-> h.node, path |-> h.path, weight |-> h.weight] :
                h \in Held(xmlData, T, u) }

\* C28: updateSecurityAssignments for taxonomy T and security s leaves the
\* assignments of every other security and vehicle in T, every node and
\* assignment of every other taxonomy, and the name, id and order of every
\* existing category node as they were.
C28_UpdateFrame == [][FrameStep]_vars

\* C28 witness: after s1 was given Stock 100% in Asset, s2 and the account
\* are held by Stock as before and s1 is still held by Growth in Style.
C28_Witness ==
  /\ updateCount = 1
  /\ updateCall = [taxonomyName |-> "Asset", securityUuid |-> "s1",
                   assignments |-> List(<<A1("Stock", W(6000, 1)),
                                          Assignment(<<"Stock", "US">>, W(3999, 2))>>)]
  /\ xmlData.nodes[2].assignments =
       <<XmlAssignment(AccountReference(1, 1), 5000),
         XmlAssignment(getSecurityReference(1, 1), 10000),
         XmlAssignment(getSecurityReference(0, 1), 6000)>>
  /\ xmlData.nodes[5] = ClassifiedDocument.nodes[5]

\* A call with a security that is not in the document reports the error
\* and leaves the document as it is.
UnknownSecurityStep ==
  ( /\ IsUpdate
    /\ getSecurityIndex(xmlData, updateCall'.securityUuid) = -1 )
  => /\ xmlData' = xmlData
     /\ ( updateCall'.assignments.defined /\ updateCall'.assignments.list # <<>> )
          => xmlErrors' > 0

\* C29: when the security id handed to updateSecurityAssignments is not in
\* the document, the call reports the error and adds or removes no
\* assignment, no category node and no taxonomy.
C29_UnknownSecurityKeepsDocument == [][UnknownSecurityStep]_vars

\* No node has two children written with the same name, and no node holds
\* two assignments with the same reference.
CategoryTree ==
  \A n \in DOMAIN xmlData.nodes :
    /\ \A i, j \in 1..Len(xmlData.nodes[n].children) :
         buildTagValue(xmlData.nodes[xmlData.nodes[n].children[i]].name)
           = buildTagValue(xmlData.nodes[xmlData.nodes[n].children[j]].name)
         => i = j
    /\ \A i, j \in 1..Len(xmlData.nodes[n].assignments) :
         xmlData.nodes[n].assignments[i].investmentVehicle
           = xmlData.nodes[n].assignments[j].investmentVehicle
         => i = j

\* Every node stays, with the name it is written with and its children in
\* their order.
NodesKeptStep ==
  \A n \in DOMAIN xmlData.nodes :
    /\ n \in DOMAIN xmlData'.nodes
    /\ buildTagValue(xmlData'.nodes[n].name) = buildTagValue(xmlData.nodes[n].name)
    /\ Len(xmlData'.nodes[n].children) >= Len(xmlData.nodes[n].children)
    /\ SubSeq(xmlData'.nodes[n].children, 1, Len(xmlData.nodes[n].children))
         = xmlData.nodes[n].children

\* C30: after any sequence of updateSecurityAssignments calls on a document
\* whose sibling category names are unique, no node has two children with
\* the same name and no security has two assignments on the same node; no
\* category node is ever removed or renamed.
C30_CategoryTreeInvariant ==
  /\ []CategoryTree
  /\ [][NodesKeptStep]_vars

====
